---- MODULE Spec2Model ----
(***************************************************************************)
(* Model of the Cornell note generator: the sanitize() text pass, the      *)
(* extraction pipeline of the CornellNoteGenerator component and the       *)
(* component's state (excerpt, note, strict mode, suggestions, selection). *)
(* Strings are TLA+ strings; characters are strings of length one.         *)
(***************************************************************************)
EXTENDS Integers, Sequences, FiniteSets, TLC

(***************************************************************************)
(* Evaluation.  Let(v, F) is F(v) with v computed once, before F is        *)
(* applied; Array(f) is the sequence f with its elements computed once.    *)
(***************************************************************************)
Let(v, F(_)) == CHOOSE r \in {F(w) : w \in {v}} : TRUE

Let2(u, v, F(_, _)) == CHOOSE r \in {F(a, b) : a \in {u}, b \in {v}} : TRUE

Array(f) == Let(f, LAMBDA g : SubSeq(g, 1, Len(g)))

\* the function f with every value evaluated
Table(f) == f @@ <<>>

Idx(n) == [i \in 1..n |-> i]

Min2(a, b) == IF a <= b THEN a ELSE b
Max2(a, b) == IF a >= b THEN a ELSE b

\* the least j in lo..hi with P(j), or hi + 1
First(lo, hi, P(_)) ==
  Let2(lo, hi, LAMBDA a, b :
    IF \E j \in a..b : P(j)
    THEN CHOOSE j \in a..b : P(j) /\ \A k \in a..(j - 1) : ~P(k)
    ELSE b + 1)

\* the greatest j in lo..hi with P(j), or lo - 1
Last(lo, hi, P(_)) ==
  Let2(lo, hi, LAMBDA a, b :
    IF \E j \in a..b : P(j)
    THEN CHOOSE j \in a..b : P(j) /\ \A k \in (j + 1)..b : ~P(k)
    ELSE a - 1)

\* the elements of seq that satisfy P, as positions
Positions(n, P(_)) == Let(n, LAMBDA m : SelectSeq(Idx(m), P))

\* pieces[lo] \o ... \o pieces[hi]
RECURSIVE ConcatRange(_, _, _)
ConcatRange(pieces, lo, hi) ==
  IF lo > hi THEN ""
  ELSE IF lo = hi THEN pieces[lo]
  ELSE Let((lo + hi) \div 2,
           LAMBDA mid : ConcatRange(pieces, lo, mid) \o ConcatRange(pieces, mid + 1, hi))

Concat(pieces) == Let(pieces, LAMBDA ps : ConcatRange(ps, 1, Len(ps)))

\* Array.prototype.join
Join(pieces, sep) ==
  Let2(pieces, sep, LAMBDA ps, sp :
    Concat([k \in 1..Len(ps) |-> IF k = 1 THEN ps[k] ELSE sp \o ps[k]]))

(***************************************************************************)
(* Strings: the JavaScript string and regular-expression primitives the    *)
(* code uses.                                                              *)
(***************************************************************************)
LowerAlphabet == "abcdefghijklmnopqrstuvwxyz"
UpperAlphabet == "ABCDEFGHIJKLMNOPQRSTUVWXYZ"
DigitAlphabet == "0123456789"

Ch(s, i) == SubSeq(s, i, i)

CharsOf(s) == {Ch(s, i) : i \in 1..Len(s)}

LowerChars == CharsOf(LowerAlphabet)
UpperChars == CharsOf(UpperAlphabet)
DigitChars == CharsOf(DigitAlphabet)
\* \w of a regular expression
WordChars == LowerChars \cup UpperChars \cup DigitChars \cup {"_"}
\* \s of a regular expression, and what String.prototype.trim removes
WhiteSpace == {" ", "\t", "\n", "\r"}
\* what ^ and $ (m flag) and . look at
LineTerminators == {"\n", "\r"}
\* [.!?]
Terminators == {".", "!", "?"}

LowerMap ==
  [c \in UpperChars |->
     Ch(LowerAlphabet, CHOOSE k \in 1..Len(UpperAlphabet) : Ch(UpperAlphabet, k) = c)]

LowerChar(c) == Let(c, LAMBDA d : IF d \in UpperChars THEN LowerMap[d] ELSE d)

\* String.prototype.toLowerCase
toLowerCase(s) ==
  Let(s, LAMBDA v : Concat([i \in 1..Len(v) |-> LowerChar(Ch(v, i))]))

\* String.prototype.trim
trim(s) ==
  Let(s, LAMBDA v :
    Let2(First(1, Len(v), LAMBDA j : Ch(v, j) \notin WhiteSpace),
         Last(1, Len(v), LAMBDA j : Ch(v, j) \notin WhiteSpace),
         LAMBDA a, b : IF a > b THEN "" ELSE SubSeq(v, a, b)))

\* whether s holds lit at position i
LitAt(s, i, lit) ==
  /\ i >= 1
  /\ i + Len(lit) - 1 <= Len(s)
  /\ SubSeq(s, i, i + Len(lit) - 1) = lit

\* the same under the i flag
LitAtCI(s, i, lit) ==
  /\ i >= 1
  /\ i + Len(lit) - 1 <= Len(s)
  /\ \A k \in 1..Len(lit) : LowerChar(Ch(s, i + k - 1)) = LowerChar(Ch(lit, k))

\* String.prototype.includes
includes(s, sub) ==
  Let2(s, sub, LAMBDA v, w :
    \E i \in 1..(Len(v) - Len(w) + 1) : SubSeq(v, i, i + Len(w) - 1) = w)

\* String.prototype.endsWith, for a one-character argument
endsWith(s, c) == Let(s, LAMBDA v : Len(v) >= 1 /\ Ch(v, Len(v)) = c)

IsWordAt(s, i) == i >= 1 /\ i <= Len(s) /\ Ch(s, i) \in WordChars

\* \b holds between position i - 1 and position i
WordBoundary(s, i) == IsWordAt(s, i - 1) # IsWordAt(s, i)

\* ^ under the m flag
LineStart(s, i) == i = 1 \/ Ch(s, i - 1) \in LineTerminators

\* $ under the m flag
LineEnd(s, i) == i = Len(s) + 1 \/ Ch(s, i) \in LineTerminators

\* a greedy X* or X+ from position i: the first position not in the class
SkipClass(s, i, class) == First(i, Len(s), LAMBDA j : Ch(s, j) \notin class)

\* a greedy .* from position i
SkipLine(s, i) == First(i, Len(s), LAMBDA j : Ch(s, j) \in LineTerminators)

\* String.prototype.split on a regular expression [class]+
SplitOn(s, class) ==
  Let(s, LAMBDA v :
    Let(Positions(Len(v), LAMBDA i : Ch(v, i) \notin class
                                     /\ (i = 1 \/ Ch(v, i - 1) \in class)),
        LAMBDA starts :
          (IF Len(v) = 0 \/ Ch(v, 1) \in class THEN <<"">> ELSE <<>>)
          \o [k \in 1..Len(starts) |->
                SubSeq(v, starts[k],
                       First(starts[k], Len(v), LAMBDA j : Ch(v, j) \in class) - 1)]
          \o (IF Len(v) > 0 /\ Ch(v, Len(v)) \in class THEN <<"">> ELSE <<>>)))

\* the string with its white space as it is
WhiteSpaceKept(s) == s

\* String.prototype.replace(/\s+/g, ' ')
CollapseWhiteSpace(s) ==
  Let(s, LAMBDA v :
    Concat([i \in 1..Len(v) |->
              IF Ch(v, i) \notin WhiteSpace THEN Ch(v, i)
              ELSE IF i > 1 /\ Ch(v, i - 1) \in WhiteSpace THEN ""
              ELSE " "]))

(***************************************************************************)
(* Regular expressions.  A pattern is a record; MatchEnd(p, s, i) is the   *)
(* position after the match of p that starts at position i of s, or 0 when *)
(* p does not match there; Replacement(p, s, i, e) is what replace() puts  *)
(* for the match s[i..e-1].                                                *)
(***************************************************************************)
MetadataKeys == {"section_key", "title", "chapter", "level", "word_count", "source"}

Consonants == CharsOf("bcdfghjklmnpqrstvwxyzBCDFGHJKLMNPQRSTVWXYZ")

\* /^(section_key|title|chapter|level|word_count|source):\s*.*$/gm
\* /^Evidence:\s*.*$/gm
KeyLineEnd(s, i, keys) ==
  IF LineStart(s, i) /\ \E k \in keys : LitAt(s, i, k \o ":")
  THEN Let(CHOOSE k \in keys : LitAt(s, i, k \o ":"),
           LAMBDA k : SkipLine(s, SkipClass(s, i + Len(k) + 1, WhiteSpace)))
  ELSE 0

\* /Complimentary Member Copy[.\s]*Not for Distribution or Resale[.\s]*/gi
WatermarkEnd(s, i) ==
  IF LitAtCI(s, i, "Complimentary Member Copy")
  THEN Let(SkipClass(s, i + 25, {"."} \cup WhiteSpace),
           LAMBDA a : IF LitAtCI(s, a, "Not for Distribution or Resale")
                      THEN SkipClass(s, a + 30, {"."} \cup WhiteSpace)
                      ELSE 0)
  ELSE 0

\* /Not for Distribution or Resale[.\s]*/gi
ResaleEnd(s, i) ==
  IF LitAtCI(s, i, "Not for Distribution or Resale")
  THEN SkipClass(s, i + 30, {"."} \cup WhiteSpace)
  ELSE 0

\* the prefix \b<word>\s+\d+ shared by the "see" and "Figure" patterns (ci: under
\* the i flag): the position after the digits, or 0
WordNumberEnd(s, i, word, ci) ==
  IF WordBoundary(s, i) /\ (IF ci THEN LitAtCI(s, i, word) ELSE LitAt(s, i, word))
  THEN Let(SkipClass(s, i + Len(word), WhiteSpace),
           LAMBDA a : Let(SkipClass(s, a, DigitChars),
                          LAMBDA b : IF a > i + Len(word) /\ b > a THEN b ELSE 0))
  ELSE 0

\* /\bsee\s+\d+\s*\./gi
SeeDotEnd(s, i) ==
  Let(WordNumberEnd(s, i, "see", TRUE),
      LAMBDA b : IF b = 0 THEN 0
                 ELSE Let(SkipClass(s, b, WhiteSpace),
                          LAMBDA c : IF c <= Len(s) /\ Ch(s, c) = "." THEN c + 1 ELSE 0))

\* /\bsee\s+\d+\s*$/gm: the greedy \s* gives back to the last line terminator
\* of the white space when the white space does not reach the end of the text
SeeEolEnd(s, i) ==
  Let(WordNumberEnd(s, i, "see", FALSE),
      LAMBDA b :
        IF b = 0 THEN 0
        ELSE Let(SkipClass(s, b, WhiteSpace),
                 LAMBDA c :
                   IF c = Len(s) + 1 THEN c
                   ELSE Let(Last(b, c - 1, LAMBDA j : Ch(s, j) \in LineTerminators),
                            LAMBDA t : IF t >= b THEN t ELSE 0)))

\* /\bFigure\s+\d+[:\s]*/gi
FigureEnd(s, i) ==
  Let(WordNumberEnd(s, i, "Figure", TRUE),
      LAMBDA b : IF b # 0 THEN SkipClass(s, b, {":"} \cup WhiteSpace) ELSE 0)

\* /^\d+[:\s]+/gm
LeadingNumberEnd(s, i) ==
  IF LineStart(s, i) /\ i <= Len(s) /\ Ch(s, i) \in DigitChars
  THEN Let(SkipClass(s, i, DigitChars),
           LAMBDA b : Let(SkipClass(s, b, {":"} \cup WhiteSpace),
                          LAMBDA c : IF c > b THEN c ELSE 0))
  ELSE 0

\* /^###\s*\d+/gm
HeadingNumberEnd(s, i) ==
  IF LineStart(s, i) /\ LitAt(s, i, "###")
  THEN Let(SkipClass(s, i + 3, WhiteSpace),
           LAMBDA a : Let(SkipClass(s, a, DigitChars),
                          LAMBDA b : IF b > a THEN b ELSE 0))
  ELSE 0

\* /\b<lit>\b/gi
WholeWordEnd(s, i, lit) ==
  IF WordBoundary(s, i) /\ LitAtCI(s, i, lit) /\ WordBoundary(s, i + Len(lit))
  THEN i + Len(lit)
  ELSE 0

\* /\b<head>\s+<tail>\b/gi, and /\b<head>\s+<tail>s?\b/gi when optS
SplitWordEnd(s, i, head, tail, optS) ==
  IF WordBoundary(s, i) /\ LitAtCI(s, i, head)
  THEN Let(SkipClass(s, i + Len(head), WhiteSpace),
           LAMBDA a :
             IF a > i + Len(head) /\ LitAtCI(s, a, tail)
             THEN Let(a + Len(tail),
                      LAMBDA b :
                        IF optS /\ LitAtCI(s, b, "s") /\ WordBoundary(s, b + 1) THEN b + 1
                        ELSE IF WordBoundary(s, b) THEN b
                        ELSE 0)
             ELSE 0)
  ELSE 0

\* /\b([bcdfghjklmnpqrstvwxyzBCDFGHJKLMNPQRSTVWXYZ])\s+([a-z]{2,})\b/g and
\* /\b([a-z])\s+([a-z][a-z]+)\b/g: one letter of `letters`, white space, and a
\* run of two or more lower-case letters that ends at a word boundary
FragmentEnd(s, i, letters) ==
  IF i <= Len(s) /\ Ch(s, i) \in letters /\ WordBoundary(s, i)
  THEN Let(SkipClass(s, i + 1, WhiteSpace),
           LAMBDA a : Let(SkipClass(s, a, LowerChars),
                          LAMBDA b : IF a > i + 1 /\ b >= a + 2 /\ WordBoundary(s, b)
                                     THEN b ELSE 0))
  ELSE 0

\* /\.\s*\./g
DoubleDotEnd(s, i) ==
  IF i <= Len(s) /\ Ch(s, i) = "."
  THEN Let(SkipClass(s, i + 1, WhiteSpace),
           LAMBDA a : IF a <= Len(s) /\ Ch(s, a) = "." THEN a + 1 ELSE 0)
  ELSE 0

\* [A-Z][a-z]+ at i, up to the end of the run of lower-case letters; the match
\* can go on only with white space or a word boundary there
CapitalizedWordEnd(s, i) ==
  Let(i, LAMBDA a :
    IF a + 1 <= Len(s) /\ Ch(s, a) \in UpperChars /\ Ch(s, a + 1) \in LowerChars
    THEN Let(SkipClass(s, a + 1, LowerChars), LAMBDA e : IF IsWordAt(s, e) THEN 0 ELSE e)
    ELSE 0)

\* (?:\s+[A-Z][a-z]+)* from e, greedy
RECURSIVE CapitalizedMore(_, _)
CapitalizedMore(s, e) ==
  IF e <= Len(s) /\ Ch(s, e) \in WhiteSpace
  THEN Let(CapitalizedWordEnd(s, SkipClass(s, e, WhiteSpace)),
           LAMBDA w : IF w = 0 THEN e ELSE CapitalizedMore(s, w))
  ELSE e

\* /\b[A-Z][a-z]+(?:\s+[A-Z][a-z]+)*\b/
CapitalizedPhraseEnd(s, i) ==
  IF ~IsWordAt(s, i - 1)
  THEN Let(CapitalizedWordEnd(s, i), LAMBDA w : IF w = 0 THEN 0 ELSE CapitalizedMore(s, w))
  ELSE 0

MatchEnd(p, s, i) ==
  CASE p.kind = "keyline" -> KeyLineEnd(s, i, p.keys)
    [] p.kind = "watermark" -> WatermarkEnd(s, i)
    [] p.kind = "resale" -> ResaleEnd(s, i)
    [] p.kind = "seedot" -> SeeDotEnd(s, i)
    [] p.kind = "seeeol" -> SeeEolEnd(s, i)
    [] p.kind = "figure" -> FigureEnd(s, i)
    [] p.kind = "leadingnumber" -> LeadingNumberEnd(s, i)
    [] p.kind = "headingnumber" -> HeadingNumberEnd(s, i)
    [] p.kind = "literal" -> IF LitAtCI(s, i, p.lit) THEN i + Len(p.lit) ELSE 0
    [] p.kind = "wholeword" -> WholeWordEnd(s, i, p.lit)
    [] p.kind = "splitword" -> SplitWordEnd(s, i, p.head, p.tail, p.optS)
    [] p.kind = "fragment" -> FragmentEnd(s, i, p.letters)
    [] p.kind = "doubledot" -> DoubleDotEnd(s, i)
    [] p.kind = "capitalized" -> CapitalizedPhraseEnd(s, i)

Replacement(p, s, i, e) ==
  CASE p.kind = "fragment" ->
         \* '$1$2', and the callback of cleanupText that keeps 'a' and 'i'
         IF Ch(s, i) \in p.keep THEN SubSeq(s, i, e - 1)
         ELSE Ch(s, i) \o SubSeq(s, SkipClass(s, i + 1, WhiteSpace), e - 1)
    [] OTHER -> p.out

\* the first position from i on where p matches, or 0
NextMatch(p, s, i) ==
  Let(First(i, Len(s), LAMBDA j : MatchEnd(p, s, j) # 0),
      LAMBDA m : IF m > Len(s) THEN 0 ELSE m)

\* String.prototype.replace with a g-flag pattern, from position i on: the
\* matches are taken left to right, each search starting where the previous
\* match ended
RECURSIVE ReplaceFrom(_, _, _)
ReplaceFrom(p, s, i) ==
  Let2(p, s, LAMBDA q, v :
    Let(NextMatch(q, v, i),
        LAMBDA m :
          IF m = 0 THEN SubSeq(v, i, Len(v))
          ELSE Let(MatchEnd(q, v, m),
                   LAMBDA e : SubSeq(v, i, m - 1) \o Replacement(q, v, m, e)
                              \o ReplaceFrom(q, v, e))))

ReplaceAll(p, s) == ReplaceFrom(p, s, 1)

\* String.prototype.match with a g-flag pattern: the matched substrings
RECURSIVE MatchesFrom(_, _, _)
MatchesFrom(p, s, i) ==
  Let2(p, s, LAMBDA q, v :
    Let(NextMatch(q, v, i),
        LAMBDA m :
          IF m = 0 THEN <<>>
          ELSE Let(MatchEnd(q, v, m),
                   LAMBDA e : <<SubSeq(v, m, e - 1)>> \o MatchesFrom(q, v, e))))

MatchAll(p, s) == MatchesFrom(p, s, 1)

\* cleaned = cleaned.replace(p1, ..).replace(p2, ..) ... for the patterns from
\* the k-th on
\* the replacements of the patterns lo..hi, one after the other; the first
\* half is finished before the second half starts
RECURSIVE ReplaceRange(_, _, _, _)
ReplaceRange(ps, lo, hi, s) ==
  IF lo > hi THEN s
  ELSE IF lo = hi THEN ReplaceAll(ps[lo], s)
  ELSE Let2(ps, (lo + hi) \div 2, LAMBDA qs, mid :
         Let(ReplaceRange(qs, lo, mid, s), LAMBDA r : ReplaceRange(qs, mid + 1, hi, r)))

ReplaceEach(ps, k, s) == Let(ps, LAMBDA qs : ReplaceRange(qs, k, Len(qs), s))

(***************************************************************************)
(* sanitize (src/lib/sanitize)                                             *)
(***************************************************************************)
SanitizePatterns == <<
  [kind |-> "keyline", keys |-> MetadataKeys, out |-> ""],
  [kind |-> "watermark", out |-> ""],
  [kind |-> "resale", out |-> ""],
  [kind |-> "seedot", out |-> ""],
  [kind |-> "seeeol", out |-> ""],
  [kind |-> "figure", out |-> ""],
  [kind |-> "leadingnumber", out |-> ""],
  [kind |-> "headingnumber", out |-> ""],
  [kind |-> "keyline", keys |-> {"Evidence"}, out |-> ""],
  [kind |-> "literal", lit |-> "\"Not provided\"", out |-> ""],
  [kind |-> "wholeword", lit |-> "am indset", out |-> "a mindset"],
  [kind |-> "wholeword", lit |-> "inagile", out |-> "in agile"],
  [kind |-> "splitword", head |-> "a", tail |-> "view", optS |-> FALSE, out |-> "a view"],
  [kind |-> "splitword", head |-> "a", tail |-> "level", optS |-> FALSE, out |-> "a level"],
  [kind |-> "fragment", letters |-> Consonants, keep |-> {}]
>>

\* the sentences kept by the de-duplication pass: trimmed, non-empty, and not
\* seen before when lower-cased
UniqueSentences(str) ==
  Let(SplitOn(str, Terminators), LAMBDA sentences :
    Let(Array([k \in 1..Len(sentences) |-> trim(sentences[k])]), LAMBDA trimmed :
      Let(Array([k \in 1..Len(sentences) |-> toLowerCase(trimmed[k])]), LAMBDA lower :
        Let(Positions(Len(sentences),
                      LAMBDA k : trimmed[k] # "" /\ \A j \in 1..(k - 1) : lower[j] # lower[k]),
            LAMBDA kept : Array([k \in 1..Len(kept) |-> trimmed[kept[k]]])))))

\* sanitize with a terminator put back at the end of the joined sentences
sanitizeTerminated(text) ==
  Let(ReplaceEach(SanitizePatterns, 1, text), LAMBDA cleaned :
    Let(Join(UniqueSentences(cleaned), ". ") \o ".", LAMBDA unique :
      Let(ReplaceAll([kind |-> "doubledot", out |-> "."], unique), LAMBDA joined :
        trim(CollapseWhiteSpace(joined)))))

sanitize(text) ==
  Let(ReplaceEach(SanitizePatterns, 1, text), LAMBDA cleaned :
    Let(Join(UniqueSentences(cleaned), ". "), LAMBDA unique :
      Let(ReplaceAll([kind |-> "doubledot", out |-> "."], unique), LAMBDA joined :
        trim(CollapseWhiteSpace(joined)))))

(***************************************************************************)
(* Array helpers                                                           *)
(***************************************************************************)
\* String.prototype.split on a string separator
RECURSIVE SplitLitFrom(_, _, _)
SplitLitFrom(s, sep, i) ==
  Let2(s, sep, LAMBDA v, p :
    Let2(i, Len(v) - Len(p) + 1, LAMBDA from, last :
      Let(First(from, last, LAMBDA j : LitAt(v, j, p)), LAMBDA m :
        IF m > last THEN <<SubSeq(v, from, Len(v))>>
        ELSE <<SubSeq(v, from, m - 1)>> \o SplitLitFrom(v, p, m + Len(p)))))

SplitLit(s, sep) == SplitLitFrom(s, sep, 1)

\* Array.prototype.slice(0, n)
Take(seq, n) == Let(seq, LAMBDA a : SubSeq(a, 1, Min2(n, Len(a))))

\* Array.prototype.findIndex, 1-based, 0 when nothing is found
FindIndex(seq, P(_)) ==
  Let(seq, LAMBDA a :
    Let(First(1, Len(a), LAMBDA j : P(a[j])), LAMBDA k :
      IF k > Len(a) THEN 0 ELSE k))

\* the elements of seq in the order of first occurrence (a Set, an object's keys)
Distinct(seq) ==
  Let(seq, LAMBDA a :
    Let(SelectSeq(Idx(Len(a)), LAMBDA k : \A j \in 1..(k - 1) : a[j] # a[k]), LAMBDA kept :
      Array([k \in 1..Len(kept) |-> a[kept[k]]])))

Count(seq, v) == Let2(seq, v, LAMBDA a, w : Cardinality({j \in 1..Len(a) : a[j] = w}))

\* Array.prototype.sort((a, b) => key(b) - key(a)): stable, descending by key
SortDesc(items, key) ==
  Let2(items, key, LAMBDA it, ky :
    Let(Array([k \in 1..Len(it) |->
                 1 + Cardinality({j \in 1..Len(it) : ky[j] > ky[k]})
                   + Cardinality({j \in 1..(k - 1) : ky[j] = ky[k]})]), LAMBDA pos :
      Array([q \in 1..Len(it) |-> it[CHOOSE k \in 1..Len(it) : pos[k] = q]])))

\* text.split(/[.!?]+/).filter(s => s.trim().length > minLen)
Sentences(text, minLen) ==
  Let(minLen, LAMBDA n : SelectSeq(SplitOn(text, Terminators), LAMBDA s : Len(trim(s)) > n))

\* str.split(/\s+/)
Words(str) == SplitOn(str, WhiteSpace)

\* array.map(f)
Map(seq, F(_)) == Let(seq, LAMBDA a : Array([k \in 1..Len(a) |-> F(a[k])]))

(***************************************************************************)
(* cleanupText                                                             *)
(***************************************************************************)
SplitWord(head, tail, optS, out) ==
  [kind |-> "splitword", head |-> head, tail |-> tail, optS |-> optS, out |-> out]

CleanupPatterns == <<
  [kind |-> "fragment", letters |-> LowerChars, keep |-> {"a", "i"}],
  SplitWord("o", "f", FALSE, "of"),
  SplitWord("a", "nd", FALSE, "and"),
  SplitWord("t", "he", FALSE, "the"),
  SplitWord("t", "o", FALSE, "to"),
  SplitWord("i", "n", FALSE, "in"),
  SplitWord("i", "s", FALSE, "is"),
  SplitWord("o", "r", FALSE, "or"),
  SplitWord("f", "or", FALSE, "for"),
  SplitWord("b", "y", FALSE, "by"),
  SplitWord("a", "t", FALSE, "at"),
  SplitWord("o", "n", FALSE, "on"),
  SplitWord("u", "p", FALSE, "up"),
  SplitWord("e", "ach", FALSE, "each"),
  SplitWord("u", "sed", FALSE, "used"),
  SplitWord("t", "echnique", TRUE, "technique"),
  SplitWord("p", "ractice", TRUE, "practice"),
  SplitWord("h", "orizon", FALSE, "horizon"),
  SplitWord("b", "usiness", FALSE, "business"),
  SplitWord("a", "nalysis", FALSE, "analysis"),
  SplitWord("c", "ontext", FALSE, "context"),
  SplitWord("p", "rocess", FALSE, "process"),
  SplitWord("r", "equirement", FALSE, "requirement"),
  SplitWord("s", "takeholder", FALSE, "stakeholder"),
  SplitWord("p", "roject", FALSE, "project"),
  SplitWord("m", "anager", FALSE, "manager"),
  SplitWord("d", "evelop", FALSE, "develop"),
  SplitWord("v", "alue", FALSE, "value"),
  SplitWord("d", "etail", FALSE, "detail")
>>

cleanupText(text) ==
  Let(ReplaceEach(CleanupPatterns, 1, text), LAMBDA fixed :
    trim(CollapseWhiteSpace(fixed)))

(***************************************************************************)
(* calculateSimilarity: intersection / union, kept as the pair             *)
(* <<intersection, union>>; the thresholds compare the two exactly.        *)
(***************************************************************************)
calculateSimilarity(str1, str2) ==
  Let2(Words(toLowerCase(str1)), Words(toLowerCase(str2)), LAMBDA words1, words2 :
    Let2({words1[k] : k \in 1..Len(words1)}, {words2[k] : k \in 1..Len(words2)},
         LAMBDA inWords1, inWords2 :
      <<Cardinality({k \in 1..Len(words1) : words1[k] \in inWords2}),
        Cardinality(inWords1 \cup inWords2)>>))

\* similarity > num / den and similarity < num / den
SimilarityAbove(sim, num, den) == Let(sim, LAMBDA r : r[1] * den > num * r[2])
SimilarityBelow(sim, num, den) == Let(sim, LAMBDA r : r[1] * den < num * r[2])

(***************************************************************************)
(* extractKeywords                                                         *)
(***************************************************************************)
aacCriticalTerms == <<
  "agile mindset", "business value", "rolling-wave planning", "three horizons",
  "babok v3 integration", "strategy horizon", "initiative horizon", "delivery horizon",
  "adaptive planning", "progressive elaboration", "stakeholder collaboration",
  "agile extension", "context-appropriate practices", "value prioritization",
  "iterative development">>

FillerWords == {"the ", "and ", "that ", "this ", "with ", "from ", "they ", "have ",
                "will ", "can ", "are ", "for "}

MinKeywords == 5
MaxKeywords == 7
TwoWordMinLength == 8
ThreeWordMinLength == 12

\* a phrase longer than minLen with no digit and no filler word
Substantive(phrase, minLen) ==
  Let(phrase, LAMBDA ph :
    /\ Len(ph) > minLen
    /\ \A i \in 1..Len(ph) : Ch(ph, i) \notin DigitChars
    /\ \A filler \in FillerWords : ~includes(ph, filler))

\* the two- and three-word phrases the loop counts, in the order it meets
\* them ("" for one it skips)
PhrasesMet(words) ==
  Let(words, LAMBDA ws :
    Array([k \in 1..(2 * (Len(ws) - 1)) |->
             Let(Join(SubSeq(ws, (k + 1) \div 2,
                             Min2((k + 1) \div 2 + (IF k % 2 = 1 THEN 1 ELSE 2), Len(ws))), " "),
                 LAMBDA ph :
               IF Substantive(ph, IF k % 2 = 1 THEN TwoWordMinLength ELSE ThreeWordMinLength)
               THEN ph ELSE "")]))

extractKeywords(text) ==
  Let(toLowerCase(text), LAMBDA textLower :
    Let2(SelectSeq(aacCriticalTerms, LAMBDA term : includes(textLower, toLowerCase(term))),
         PhrasesMet(Words(textLower)), LAMBDA found, met :
      IF Len(found) < MinKeywords
      THEN Let(SelectSeq(Distinct(met),
                         LAMBDA ph : ph # "" /\ \A j \in 1..Len(found) : ~includes(found[j], ph)),
               LAMBDA candidates :
             Let(SortDesc(candidates, Map(candidates, LAMBDA ph : Count(met, ph))),
                 LAMBDA sorted :
               Take(found \o Take(sorted, MaxKeywords - Len(found)), MaxKeywords)))
      ELSE Take(found, MaxKeywords)))

(***************************************************************************)
(* generateQuestions                                                       *)
(***************************************************************************)
questionTemplates == <<
  [pattern |-> <<"horizon", "framework", "model", "approach", "structure", "three",
                 "strategy", "initiative", "delivery">>,
   question |-> "How does the Three Horizons framework organize agile business analysis work?"],
  [pattern |-> <<"agile", "mindset", "adaptive", "collaborative", "iterative", "flexible",
                 "context">>,
   question |-> "What distinguishes agile as a mindset versus a set of practices?"],
  [pattern |-> <<"value", "benefit", "outcome", "delivery", "customer", "stakeholder",
                 "business">>,
   question |-> "How does the Agile Extension emphasize business value delivery over process compliance?"],
  [pattern |-> <<"planning", "rolling-wave", "progressive", "elaboration", "requirements",
                 "adaptive">>,
   question |-> "What are the key characteristics of rolling-wave planning in agile contexts?"],
  [pattern |-> <<"babok", "extension", "complement", "enhance", "integrate", "map",
                 "practices">>,
   question |-> "How does the Agile Extension v2 integrate with and enhance BABOK v3 practices?"]
>>

QuestionSentenceMinLength == 30
FallbackSentenceMinLength == 40
RelatedSentenceMinLength == 25
MaxQuestions == 5

\* lower.includes(keyword) for some keyword of the list
IncludesAny(lower, keywords) ==
  Let2(lower, keywords, LAMBDA l, ks : \E k \in 1..Len(ks) : includes(l, ks[k]))

\* s.endsWith('.') ? s : s + '.'
WithPeriod(s) == Let(s, LAMBDA v : IF endsWith(v, ".") THEN v ELSE v \o ".")

\* the number of the primary sentence's words (repeats counted) that are
\* longer than 4 characters and occur in the candidate sentence
CommonWords(pWords, s) ==
  Let2(pWords, Words(toLowerCase(s)), LAMBDA ps, sWords :
    Let({sWords[k] : k \in 1..Len(sWords)}, LAMBDA inS :
      Cardinality({k \in 1..Len(ps) : ps[k] \in inS /\ Len(ps[k]) > 4})))

\* the predicate of contextSentences.find in createCrispAnswer
IsRelated(s, primaryCleaned, pWords, primaryKey, usedContent) ==
  Let2(s, trim(s), LAMBDA v, tr :
    /\ Len(tr) > RelatedSentenceMinLength
    /\ tr \notin usedContent
    /\ Let(CommonWords(pWords, v), LAMBDA commonWords : commonWords >= 1 /\ commonWords <= 3)
    /\ tr # primaryCleaned
    /\ SimilarityBelow(calculateSimilarity(primaryKey, Take(toLowerCase(v), 50)), 7, 10))

\* createCrispAnswer: the answer, and the related sentence it adds to usedContent
createCrispAnswer(primarySentence, contextSentences, usedContent) ==
  Let2(trim(primarySentence), contextSentences, LAMBDA primaryCleaned, context :
    Let2(Words(toLowerCase(primaryCleaned)), Take(toLowerCase(primaryCleaned), 50),
         LAMBDA pWords, primaryKey :
      Let2(usedContent, Len(Words(primaryCleaned)), LAMBDA used, primaryWords :
        Let(FindIndex(context, LAMBDA s : IsRelated(s, primaryCleaned, pWords, primaryKey, used)),
            LAMBDA r :
          IF r # 0 /\ primaryWords < 25
          THEN [answer |-> WithPeriod(primaryCleaned) \o " " \o WithPeriod(trim(context[r])),
                used |-> {trim(context[r])}]
          ELSE [answer |-> WithPeriod(primaryCleaned), used |-> {}]))))

\* the choice of a template that takes no account of usedContent
PickSentenceUsedOrNot(pattern, sentences, lowers, usedContent) ==
  Let2(sentences, lowers, LAMBDA ss, ls :
    Let(pattern, LAMBDA pat :
      Let(First(1, Len(ss), LAMBDA k : IncludesAny(ls[k], pat)), LAMBDA m :
        IF m <= Len(ss) THEN m
        ELSE Let(First(1, Len(ss), LAMBDA k : Len(trim(ss[k])) > FallbackSentenceMinLength),
                 LAMBDA f : IF f <= Len(ss) THEN f ELSE 0))))

\* the sentence a template picks: the first unused one that has one of its
\* keywords, else the first unused one longer than the fallback length, else 0
PickSentence(pattern, sentences, lowers, usedContent) ==
  Let2(sentences, usedContent, LAMBDA ss, used :
    Let2(lowers, pattern, LAMBDA ls, pat :
      Let(First(1, Len(ss), LAMBDA k : trim(ss[k]) \notin used /\ IncludesAny(ls[k], pat)),
          LAMBDA m :
        IF m <= Len(ss) THEN m
        ELSE Let(First(1, Len(ss), LAMBDA k : /\ trim(ss[k]) \notin used
                                              /\ Len(trim(ss[k])) > FallbackSentenceMinLength),
                 LAMBDA f : IF f <= Len(ss) THEN f ELSE 0))))

\* one iteration of questionTemplates.forEach on the state st = [questions, usedContent]
QuestionStep(template, sentences, lowers, st) ==
  Let2(sentences, st, LAMBDA ss, state :
    Let(PickSentence(template.pattern, ss, lowers, state.usedContent), LAMBDA pick :
      IF pick = 0 THEN state
      ELSE Let(createCrispAnswer(ss[pick], ss, state.usedContent), LAMBDA crisp :
             [questions |-> Append(state.questions,
                                   [question |-> template.question, answer |-> crisp.answer]),
              usedContent |-> state.usedContent \cup crisp.used \cup {trim(ss[pick])}])))

RECURSIVE QuestionLoop(_, _, _, _)
QuestionLoop(k, sentences, lowers, st) ==
  IF k > Len(questionTemplates) THEN st
  ELSE Let2(sentences, lowers, LAMBDA ss, ls :
         Let2(k + 1, QuestionStep(questionTemplates[k], ss, ls, st), LAMBDA n, next :
           QuestionLoop(n, ss, ls, next)))

generateQuestions(text) ==
  Let(Sentences(text, QuestionSentenceMinLength), LAMBDA sentences :
    Let(QuestionLoop(1, sentences, Map(sentences, toLowerCase),
                     [questions |-> <<>>, usedContent |-> {}]), LAMBDA st :
      Take(st.questions, MaxQuestions)))

(***************************************************************************)
(* filterQuestionTakeaways and generateTakeaways                           *)
(***************************************************************************)
QuestionStarters == {"what", "how", "why", "when", "where", "who", "which", "can", "could",
                     "would", "should", "will", "do", "does", "did", "is", "are", "was",
                     "were"}

\* /\?$/ or /^(what|how|...|were)\s/i on the trimmed sentence
IsQuestion(trimmed) ==
  Let(trimmed, LAMBDA tr :
    \/ endsWith(tr, "?")
    \/ \E w \in QuestionStarters :
         /\ LitAtCI(tr, 1, w)
         /\ Len(tr) > Len(w)
         /\ Ch(tr, Len(w) + 1) \in WhiteSpace)

\* every path of the code for a question returns { isValid: false } with no
\* transformed sentence
filterQuestionTakeaways(sentence) == [isValid |-> ~IsQuestion(trim(sentence))]

coreTemplates == <<
  [keywords |-> <<"mindset", "practices", "agile", "context-appropriate">>,
   fallback |-> "Agile is a mindset expressed via context-appropriate practices, not a fixed set of methodologies."],
  [keywords |-> <<"horizon", "strategy", "initiative", "delivery", "framework", "three">>,
   fallback |-> "Three Horizons framework provides Structure-Initiative-Delivery (SID) levels for organizing rolling-wave planning across different time spans."],
  [keywords |-> <<"business value", "value delivery", "customer", "outcomes", "stakeholder">>,
   fallback |-> "Business value delivery through stakeholder collaboration takes priority over rigid process adherence."],
  [keywords |-> <<"beyond software", "all contexts", "broader", "not limited", "any business">>,
   fallback |-> "Agile Extension v2 scope extends beyond software development to encompass all business analysis contexts."],
  [keywords |-> <<"babok", "complement", "extension", "enhance", "integrate", "maps">>,
   fallback |-> "AE v2 maps mindset-led BA practices to BABOK v3 without providing a fixed checklist approach."],
  [keywords |-> <<"rolling-wave", "progressive", "elaboration", "adaptive", "planning">>,
   fallback |-> "Rolling-wave and progressive elaboration techniques enable adaptive planning that responds to changing requirements."]
>>

TakeawaySentenceMinLength == 20
TakeawayMatchMinLength == 25
MaxTakeaways == 7

\* one iteration of coreTemplates.forEach on the state st = [takeaways, usedSentences]
TakeawayStep(template, sentences, lowers, st) ==
  Let2(sentences, st, LAMBDA ss, state :
    Let2(lowers, template.keywords, LAMBDA ls, keywords :
      Let(First(1, Len(ss), LAMBDA k :
                Let(trim(ss[k]), LAMBDA tr :
                  /\ filterQuestionTakeaways(tr).isValid
                  /\ tr \notin state.usedSentences
                  /\ Len(tr) > TakeawayMatchMinLength
                  /\ IncludesAny(ls[k], keywords))), LAMBDA m :
        IF m <= Len(ss)
        THEN [takeaways |-> Append(state.takeaways, WithPeriod(trim(ss[m]))),
              usedSentences |-> state.usedSentences \cup {trim(ss[m])}]
        ELSE [takeaways |-> Append(state.takeaways, template.fallback),
              usedSentences |-> state.usedSentences])))

RECURSIVE TakeawayLoop(_, _, _, _)
TakeawayLoop(k, sentences, lowers, st) ==
  IF k > Len(coreTemplates) THEN st
  ELSE Let2(sentences, lowers, LAMBDA ss, ls :
         Let2(k + 1, TakeawayStep(coreTemplates[k], ss, ls, st), LAMBDA n, next :
           TakeawayLoop(n, ss, ls, next)))

\* parts.filter((part, index) => !parts.slice(0, index).some(existing =>
\*   calculateSimilarity(part, existing) > num / den))
DropSimilar(parts, num, den) ==
  Let(parts, LAMBDA ps :
    Let(SelectSeq(Idx(Len(ps)),
                  LAMBDA k : \A j \in 1..(k - 1) :
                               ~SimilarityAbove(calculateSimilarity(ps[k], ps[j]), num, den)),
        LAMBDA kept : Array([k \in 1..Len(kept) |-> ps[kept[k]]])))

generateTakeaways(text) ==
  Let(Sentences(text, TakeawaySentenceMinLength), LAMBDA sentences :
    Let(TakeawayLoop(1, sentences, Map(sentences, toLowerCase),
                     [takeaways |-> <<>>, usedSentences |-> {}]), LAMBDA st :
      Take(DropSimilar(st.takeaways, 6, 10), MaxTakeaways)))

(***************************************************************************)
(* generateSummary                                                         *)
(***************************************************************************)
\* s.trim().charAt(0).toLowerCase() + s.trim().slice(1)
LowerFirst(s) ==
  Let(trim(s), LAMBDA tr :
    IF tr = "" THEN "" ELSE LowerChar(Ch(tr, 1)) \o SubSeq(tr, 2, Len(tr)))

IsPurpose(lower) ==
  \/ includes(lower, "agile extension") /\ includes(lower, "v2")
  \/ includes(lower, "purpose")
  \/ includes(lower, "provides") /\ includes(lower, "guidance")
  \/ includes(lower, "maps") /\ includes(lower, "babok")

IsHorizon(lower) ==
  \/ includes(lower, "horizon") /\ (includes(lower, "three") \/ includes(lower, "framework"))
  \/ includes(lower, "rolling-wave")
  \/ includes(lower, "progressive elaboration")
  \/ includes(lower, "strategy") /\ includes(lower, "initiative") /\ includes(lower, "delivery")

IsMindset(lower) ==
  \/ includes(lower, "mindset") /\ (includes(lower, "practices") \/ includes(lower, "context"))
  \/ includes(lower, "collaborative") /\ includes(lower, "adaptive")
  \/ includes(lower, "context-appropriate")

IsScope(lower) ==
  \/ includes(lower, "beyond software")
  \/ includes(lower, "all contexts")
  \/ includes(lower, "broader")
  \/ includes(lower, "business analysis") /\ includes(lower, "contexts")

IsValue(lower) ==
  \/ includes(lower, "business value")
  \/ includes(lower, "value") /\ includes(lower, "delivery")
  \/ includes(lower, "stakeholder") /\ includes(lower, "collaboration")

MaxSummaryParts == 6

\* sentences.find(s => Is(s.toLowerCase())): the sentence found, or null as <<>>
FindSentence(sentences, Is(_)) ==
  Let(sentences, LAMBDA ss :
    Let(FindIndex(ss, LAMBDA s : Let(toLowerCase(s), Is)), LAMBDA k :
      IF k = 0 THEN <<>> ELSE <<ss[k]>>))

\* part => part.trim(), then a final '.' unless it ends with '.' or '!'
EndSentence(part) ==
  Let(trim(part), LAMBDA tr : IF endsWith(tr, ".") \/ endsWith(tr, "!") THEN tr ELSE tr \o ".")

generateSummary(text) ==
  Let(Sentences(text, TakeawaySentenceMinLength), LAMBDA sentences :
    Let2(FindSentence(sentences, IsPurpose), FindSentence(sentences, IsHorizon),
         LAMBDA purpose, horizon :
      Let2(FindSentence(sentences, IsMindset), FindSentence(sentences, IsScope),
           LAMBDA mindset, scope :
        Let(FindSentence(sentences, IsValue), LAMBDA value :
          Let(<<IF purpose # <<>> THEN trim(purpose[1])
                ELSE "The Agile Extension v2 maps mindset-led business analysis practices to BABOK v3, providing comprehensive guidance for agile and adaptive contexts",
                IF horizon # <<>> THEN "It utilizes " \o LowerFirst(horizon[1])
                ELSE "It utilizes the Three Horizons framework (Strategy, Initiative, Delivery) with rolling-wave planning and progressive elaboration techniques",
                IF mindset # <<>> THEN "This emphasizes " \o LowerFirst(mindset[1])
                ELSE "This emphasizes agile as a mindset expressed through context-appropriate practices rather than rigid methodologies",
                IF scope # <<>> THEN "The scope extends " \o LowerFirst(scope[1])
                ELSE "The scope extends beyond software development to all business analysis contexts while integrating with core BABOK practices",
                IF value # <<>> THEN "Ultimately, it focuses on " \o LowerFirst(value[1])
                ELSE "Ultimately, it focuses on delivering maximum business value through stakeholder collaboration and adaptive planning that responds to changing requirements">>,
              LAMBDA summaryParts :
            Let(Map(SelectSeq(summaryParts, LAMBDA part : part # ""), EndSentence), LAMBDA ended :
              Join(Take(DropSimilar(ended, 7, 10), MaxSummaryParts), " ")))))))

(***************************************************************************)
(* extractConceptTerms, removeDuplicates, extractTakeawaySuggestions       *)
(***************************************************************************)
MaxBigrams == 10

\* the bigrams the loop counts, in the order it meets them ("" for one it skips)
BigramsMet(words) ==
  Let(words, LAMBDA ws :
    Array([i \in 1..(Len(ws) - 1) |->
             Let(ws[i] \o " " \o ws[i + 1], LAMBDA bigram :
               IF Len(bigram) > 6 /\ ~includes(bigram, "the") /\ ~includes(bigram, "and")
               THEN bigram ELSE "")]))

extractConceptTerms(text) ==
  Let2(SelectSeq(MatchAll([kind |-> "capitalized"], text), LAMBDA ph : Len(ph) > 3),
       BigramsMet(Words(toLowerCase(text))), LAMBDA capitalizedPhrases, met :
    Let(SelectSeq(Distinct(met), LAMBDA b : b # "" /\ Count(met, b) >= 2), LAMBDA bigrams :
      Let(Take(SortDesc(bigrams, Map(bigrams, LAMBDA b : Count(met, b))), MaxBigrams),
          LAMBDA frequentBigrams : Distinct(capitalizedPhrases \o frequentBigrams))))

\* the iteration without the penalty: every suggestion is pushed as it is
RemoveStepUnpenalized(suggestion, filtered) == Append(filtered, suggestion)

\* one iteration of suggestions.forEach in removeDuplicates
RemoveStep(suggestion, filtered) ==
  Let2(suggestion, filtered, LAMBDA sg, fs :
    IF \A j \in 1..Len(fs) :
         ~SimilarityAbove(calculateSimilarity(sg.sentence, fs[j].sentence), 7, 10)
    THEN Append(fs, sg)
    ELSE IF Max2(0, sg.score - 2) > 0
         THEN Append(fs, [sg EXCEPT !.score = Max2(0, sg.score - 2)])
         ELSE fs)

RECURSIVE RemoveFrom(_, _, _)
RemoveFrom(suggestions, k, filtered) ==
  IF k > Len(suggestions) THEN filtered
  ELSE Let(suggestions, LAMBDA sgs :
         Let2(k + 1, RemoveStep(sgs[k], filtered), LAMBDA n, next : RemoveFrom(sgs, n, next)))

removeDuplicates(suggestions) == RemoveFrom(suggestions, 1, <<>>)

StarterSubjects == {"it", "this", "the"}
StarterVerbs == {"is", "introduces", "describes", "defines", "explains", "emphasizes",
                 "recommends", "provides", "demonstrates", "enables", "results in"}
actionVerbs == <<"introduces", "describes", "explains", "defines", "emphasizes", "recommends",
                 "provides", "demonstrates", "enables", "results">>

\* /^(it|this|the)\s+(is|introduces|...|results in)/i
StartsWithStarter(trimmed) ==
  Let(trimmed, LAMBDA tr :
    \E w \in StarterSubjects :
      /\ LitAtCI(tr, 1, w)
      /\ Len(tr) > Len(w)
      /\ Ch(tr, Len(w) + 1) \in WhiteSpace
      /\ Let(SkipClass(tr, Len(w) + 1, WhiteSpace), LAMBDA i :
           \E v \in StarterVerbs : LitAtCI(tr, i, v)))

SuggestionSentenceMinLength == 15
SuggestionMinLength == 20
SuggestionMaxLength == 200
SuggestionMinWords == 8
SuggestionMaxWords == 28
MaxSuggestions == 12

\* the number of terms of the list that the sentence includes
Matches(lowerSentence, terms, lowered) ==
  Let2(lowerSentence, terms, LAMBDA l, ts :
    Cardinality({k \in 1..Len(ts) :
                   includes(l, IF lowered THEN ts[k] ELSE toLowerCase(ts[k]))}))

\* the score with every rule weighing 1
SuggestionScoreUnweighted(trimmed, keywords, conceptTerms, domainTerms) ==
  Let2(trimmed, toLowerCase(trimmed), LAMBDA tr, lowerSentence :
    (IF StartsWithStarter(tr) THEN 1 ELSE 0)
    + (IF IncludesAny(lowerSentence, actionVerbs) THEN 1 ELSE 0)
    + Matches(lowerSentence, keywords, FALSE)
    + Matches(lowerSentence, conceptTerms, FALSE)
    + Matches(lowerSentence, domainTerms, TRUE)
    + (IF Len(Words(tr)) >= SuggestionMinWords /\ Len(Words(tr)) <= SuggestionMaxWords
       THEN 1 ELSE 0))

SuggestionScore(trimmed, keywords, conceptTerms, domainTerms) ==
  Let2(trimmed, toLowerCase(trimmed), LAMBDA tr, lowerSentence :
    Let(Len(Words(tr)), LAMBDA wordCount :
      (IF StartsWithStarter(tr) THEN 3 ELSE 0)
      + (IF IncludesAny(lowerSentence, actionVerbs) THEN 2 ELSE 0)
      + Matches(lowerSentence, keywords, FALSE)
      + Matches(lowerSentence, conceptTerms, FALSE)
      + Matches(lowerSentence, domainTerms, TRUE)
      + (IF wordCount >= SuggestionMinWords /\ wordCount <= SuggestionMaxWords THEN 1 ELSE 0)))

\* domainVocabulary.toLowerCase().split(',').map(term => term.trim()).filter(term => term)
DomainTerms(vocabulary) ==
  SelectSeq(Map(SplitLit(toLowerCase(vocabulary), ","), trim), LAMBDA term : term # "")

\* sentences.forEach of extractTakeawaySuggestions: the suggestions pushed
\* (usedSentences skips a sentence pushed before)
ScoredSuggestions(trimmedAt, keywords, conceptTerms, domainTerms) ==
  Let2(trimmedAt, keywords, LAMBDA trs, kws :
    Let2(conceptTerms, domainTerms, LAMBDA cts, dts :
      Let(Map(trs, LAMBDA tr : SuggestionScore(tr, kws, cts, dts)), LAMBDA score :
        Let(SelectSeq(Idx(Len(trs)),
                      LAMBDA k : /\ Len(trs[k]) >= SuggestionMinLength
                                 /\ Len(trs[k]) <= SuggestionMaxLength
                                 /\ score[k] > 0
                                 /\ filterQuestionTakeaways(trs[k]).isValid
                                 /\ \A j \in 1..(k - 1) : trs[j] # trs[k]), LAMBDA pushed :
          Array([k \in 1..Len(pushed) |->
                   [sentence |-> trs[pushed[k]], score |-> score[pushed[k]],
                    selected |-> FALSE]])))))

extractTakeawaySuggestions(text, keywords, vocabulary) ==
  Let(ScoredSuggestions(Map(Sentences(text, SuggestionSentenceMinLength), trim), keywords,
                        extractConceptTerms(text), DomainTerms(vocabulary)),
      LAMBDA suggestions :
    Let(removeDuplicates(suggestions), LAMBDA filteredSuggestions :
      Take(SortDesc(filteredSuggestions, Map(filteredSuggestions, LAMBDA sg : sg.score)),
           MaxSuggestions)))

(***************************************************************************)
(* The inputs of the component: the excerpts the user can paste, the       *)
(* domain vocabularies the user can enter, the dates of a generation.      *)
(***************************************************************************)
\* six sentences over 30 characters, four of them opening with a question
\* word: 46 words
RichExcerpt == "Agile Extension v2 provides guidance. It introduces the three horizons framework for strategy work. How does an agile mindset use context-appropriate practices. Is business value delivery important for every customer. Are rolling-wave planning and progressive elaboration adaptive. Does the extension map practices to babok and more."

\* three sentences that differ in their last word and a sentence of 79 words:
\* 100 words
SparseExcerpt == "agile the3 three the4 customer the5 one. agile the3 three the4 customer the5 two. agile the3 three the4 customer the5 six. Up up up up up up up up up up up up up up up up up up up up up up up up up up up up up up up up up up up up up up up up up up up up up up up up up up up up up up up up up up up up up up up up up up up up up up up up up up up up up up up."

\* the sentences of SparseExcerpt, the last one of 279 words: 300 words
LongExcerpt == "agile the3 three the4 customer the5 one. agile the3 three the4 customer the5 two. agile the3 three the4 customer the5 six. Up up up up up up up up up up up up up up up up up up up up up up up up up up up up up up up up up up up up up up up up up up up up up up up up up up up up up up up up up up up up up up up up up up up up up up up up up up up up up up up up up up up up up up up up up up up up up up up up up up up up up up up up up up up up up up up up up up up up up up up up up up up up up up up up up up up up up up up up up up up up up up up up up up up up up up up up up up up up up up up up up up up up up up up up up up up up up up up up up up up up up up up up up up up up up up up up up up up up up up up up up up up up up up up up up up up up up up up up up up up up up up up up up up up up up up up up up up up up up up up up up up up up up up up up up up up up up up up up up up up up up up up up up up up up up up up up up up up up up up up."

Excerpts == {RichExcerpt, SparseExcerpt, LongExcerpt}

Vocabularies == {"", "agile"}

Dates == {"2025-01-15"}

(***************************************************************************)
(* generateCornellNote: the values it computes from the excerpt and the    *)
(* vocabulary of its closure.                                              *)
(***************************************************************************)
ShortExcerptWords == 100

\* sanitize(keywords.join(', ')).split(', ').filter(k => k.trim())
SanitizedKeywords(keywords) ==
  SelectSeq(SplitLit(sanitize(Join(keywords, ", ")), ", "), LAMBDA k : trim(k) # "")

\* the fields of the note that do not depend on the mode, and the takeaways of
\* the standard mode
Draft(cleaned) ==
  Let(cleaned, LAMBDA text :
    Let(extractKeywords(text), LAMBDA keywords :
      [extracted |-> keywords,
       keywords |-> SanitizedKeywords(keywords),
       questions |-> Map(generateQuestions(text),
                         LAMBDA qa : [question |-> sanitize(qa.question),
                                      answer |-> sanitize(qa.answer)]),
       takeaways |-> Map(generateTakeaways(text), sanitize),
       summary |-> sanitize(generateSummary(text))]))

\* cleanedExcerpt, wordCount, the draft of the note, and the suggestions of
\* the strict mode for each vocabulary
Generated(e) ==
  Let(cleanupText(sanitize(e)), LAMBDA cleanedExcerpt :
    Let(Draft(cleanedExcerpt), LAMBDA draft :
      [cleanedExcerpt |-> cleanedExcerpt,
       wordCount |-> Len(Words(trim(cleanedExcerpt))),
       draft |-> draft,
       suggestions |-> Table([v \in Vocabularies |->
                                extractTakeawaySuggestions(cleanedExcerpt, draft.extracted, v)])]))

(***************************************************************************)
(* validateStrictMode.  The closure's strictMode and selectedTakeaways are *)
(* parameters.  ">=" in a message stands for the character U+2265.         *)
(***************************************************************************)
MinQuestions == 5
MinTakeaways == 5
MinSummarySentences == 4
MaxSummarySentences == 8
SummaryBlockMinLength == 10

\* note.summary.split(/[.!?]+/).filter(s => s.trim().length > 10)
SummaryBlocks(summary) == Sentences(summary, SummaryBlockMinLength)

Found(n) == "(found " \o ToString(n) \o ")"

\* qa.answer.match(/[.!?]$/)
EndsWithTerminator(answer) == Let(answer, LAMBDA a : \E c \in Terminators : endsWith(a, c))

\* the iteration without the check of the last character
AnswerErrorsEllipsisOnly(qa, index) ==
  IF includes(qa.answer, "...")
  THEN <<"Q" \o ToString(index) \o " answer contains ellipses - must be full sentences">>
  ELSE <<>>

\* one iteration of note.questions.forEach in validateStrictMode
AnswerErrors(qa, index) ==
  Let2(qa.answer, ToString(index), LAMBDA answer, number :
    (IF includes(answer, "...")
     THEN <<"Q" \o number \o " answer contains ellipses - must be full sentences">>
     ELSE <<>>)
    \o (IF EndsWithTerminator(answer) THEN <<>>
        ELSE <<"Q" \o number \o " answer must end with punctuation">>))

\* note.questions.forEach of validateStrictMode
QuestionErrors(questions) ==
  Let(questions, LAMBDA qs : Concat([k \in 1..Len(qs) |-> AnswerErrors(qs[k], k)]))

\* the count checks without their upper limits
CountErrorsBelow(keywords, questions, takeawayCount, summaryBlocks) ==
  (IF keywords < MinKeywords
   THEN <<"Keywords must be 5-7 items " \o Found(keywords)>> ELSE <<>>)
  \o (IF questions < MinQuestions
      THEN <<"Q&A must have >=5 items " \o Found(questions)>> ELSE <<>>)
  \o (IF takeawayCount < MinTakeaways
      THEN <<"Takeaways must be 5-7 items " \o Found(takeawayCount)>> ELSE <<>>)
  \o (IF summaryBlocks < MinSummarySentences
      THEN <<"Summary must be 4-8 sentences " \o Found(summaryBlocks)>> ELSE <<>>)

CountErrors(keywords, questions, takeawayCount, summaryBlocks) ==
  (IF keywords < MinKeywords \/ keywords > MaxKeywords
   THEN <<"Keywords must be 5-7 items " \o Found(keywords)>> ELSE <<>>)
  \o (IF questions < MinQuestions
      THEN <<"Q&A must have >=5 items " \o Found(questions)>> ELSE <<>>)
  \o (IF takeawayCount < MinTakeaways \/ takeawayCount > MaxTakeaways
      THEN <<"Takeaways must be 5-7 items " \o Found(takeawayCount)>> ELSE <<>>)
  \o (IF summaryBlocks < MinSummarySentences \/ summaryBlocks > MaxSummarySentences
      THEN <<"Summary must be 4-8 sentences " \o Found(summaryBlocks)>> ELSE <<>>)

UniqueErrors(keywords, questions) ==
  Let2(keywords, questions, LAMBDA ks, qs :
    (IF Cardinality({ks[k] : k \in 1..Len(ks)}) # Len(ks)
     THEN <<"All keywords must be unique">> ELSE <<>>)
    \o (IF Cardinality({qs[k].question : k \in 1..Len(qs)}) # Len(qs)
        THEN <<"All questions must be unique">> ELSE <<>>))

(***************************************************************************)
(* The values of the pure functions for the inputs of the component,       *)
(* computed once.                                                          *)
(***************************************************************************)
\* the strings of a generation that the component passes to sanitize later:
\* the strings of the note and the sentences offered for selection
GeneratedStrings(g) ==
  Let2(g.draft, g.suggestions, LAMBDA d, sgs :
    {d.keywords[k] : k \in 1..Len(d.keywords)}
    \cup {d.questions[k].question : k \in 1..Len(d.questions)}
    \cup {d.questions[k].answer : k \in 1..Len(d.questions)}
    \cup {d.takeaways[k] : k \in 1..Len(d.takeaways)}
    \cup {d.summary}
    \cup UNION {{sgs[v][k].sentence : k \in 1..Len(sgs[v])} : v \in DOMAIN sgs})

SanitizeAll(strings) == Table([s \in strings |-> sanitize(s)])

\* sanitize for the strings of the generations and for their sanitized forms
SanitizeTwice(strings) ==
  Let(SanitizeAll(strings), LAMBDA once :
    once @@ SanitizeAll({once[s] : s \in DOMAIN once} \ DOMAIN once))

Computed(excerpts) ==
  Let(Table([e \in excerpts |-> Generated(e)]), LAMBDA generated :
    [generated |-> generated,
     sanitize |-> SanitizeTwice(UNION {GeneratedStrings(generated[e]) : e \in excerpts}),
     summaryBlocks |-> Table([s \in {generated[e].draft.summary : e \in excerpts} |->
                                SummaryBlocks(s)]),
     questionErrors |-> Table([qs \in {generated[e].draft.questions : e \in excerpts} |->
                                 QuestionErrors(qs)])])

(***************************************************************************)
(* The component.  The state of the component is the seven useState cells; *)
(* pending is the closure of a generateCornellNote call that waits for its *)
(* timer; toasts are the toast() calls of the last step; clipboard is the  *)
(* text last written to the clipboard (null before the first write);       *)
(* events counts the user's edits and clicks.  memo holds the values of    *)
(* the pure functions (Computed) and never changes.  argument and returned *)
(* belong to the calls of sanitize on its own.                             *)
(***************************************************************************)
VARIABLES excerpt, cornellNote, isProcessing, strictMode, suggestedTakeaways,
          selectedTakeaways, domainVocabulary, pending, toasts, clipboard, events,
          memo, argument, returned

component == <<excerpt, cornellNote, isProcessing, strictMode, suggestedTakeaways,
               selectedTakeaways, domainVocabulary, pending, toasts, clipboard, events>>

vars == <<component, memo, argument, returned>>

\* sanitize(s), cleanedExcerpt.trim().split(/\s+/).length, the draft and the
\* suggestions of a generation, looked up
Sanitized(s) == memo.sanitize[s]

wordCount(e) == memo.generated[e].wordCount

draft(e) == memo.generated[e].draft

suggestions(e, vocabulary) == memo.generated[e].suggestions[vocabulary]

validateStrictMode(note, strict, selected) ==
  Let2(note, IF strict /\ Len(selected) > 0 THEN Len(selected) ELSE Len(note.takeaways),
       LAMBDA n, takeawayCount :
    Let(CountErrors(Len(n.keywords), Len(n.questions), takeawayCount,
                    Len(memo.summaryBlocks[n.summary]))
        \o memo.questionErrors[n.questions]
        \o UniqueErrors(n.keywords, n.questions), LAMBDA errors :
      [isValid |-> errors = <<>>, errors |-> errors]))

null == [null |-> TRUE]

\* the note object of generateCornellNote before validateEvidence
BuildNote(e, strict, date) ==
  Let(draft(e), LAMBDA d :
    [title |-> "Agile Extension Study Notes",
     date |-> date,
     module |-> "Agile Extension v2",
     keywords |-> d.keywords,
     questions |-> d.questions,
     takeaways |-> IF strict THEN <<>> ELSE d.takeaways,
     summary |-> d.summary])

\* the assignments with every question of an invalid note marked for review
WithValidationReview(note, validation) ==
  Let2(note, validation, LAMBDA n, v :
    [title |-> n.title, date |-> n.date, module |-> n.module,
     keywords |-> n.keywords,
     questions |-> IF v.isValid THEN n.questions
                   ELSE Map(n.questions,
                            LAMBDA qa : [question |-> qa.question, answer |-> qa.answer,
                                         needsReview |-> TRUE]),
     takeaways |-> n.takeaways, summary |-> n.summary,
     isValid |-> v.isValid, validationErrors |-> v.errors])

\* note.isValid = ...; note.validationErrors = ...
WithValidation(note, validation) ==
  Let2(note, validation, LAMBDA n, v :
    [title |-> n.title, date |-> n.date, module |-> n.module,
     keywords |-> n.keywords, questions |-> n.questions,
     takeaways |-> n.takeaways, summary |-> n.summary,
     isValid |-> v.isValid, validationErrors |-> v.errors])

\* a note built anew around the takeaways, with a title of its own
WithTakeawaysRetitled(note, takeaways) ==
  [note EXCEPT !.takeaways = takeaways, !.title = "Study Notes"]

\* { ...cornellNote, takeaways }
WithTakeaways(note, takeaways) == [note EXCEPT !.takeaways = takeaways]

\* cornellNote.isValid === false
IsValidFalse(note) == Let(note, LAMBDA n : "isValid" \in DOMAIN n /\ n.isValid = FALSE)

\* validateEvidence(note) in the closure of a generateCornellNote call
validateEvidence(note, strict, selected) ==
  IF strict THEN WithValidation(note, validateStrictMode(note, strict, selected)) ELSE note

\* the patch with the selection added to the takeaways of the note
updateTakeawaysAppending(note, strict, selected) ==
  IF note = null THEN note
  ELSE Let(WithTakeaways(note, note.takeaways \o Map(selected, Sanitized)),
           LAMBDA updatedNote :
         IF strict
         THEN WithValidation(updatedNote, validateStrictMode(updatedNote, strict, selected))
         ELSE updatedNote)

updateTakeawaysFromSelection(note, strict, selected) ==
  IF note = null THEN note
  ELSE Let(WithTakeaways(note, Map(selected, Sanitized)), LAMBDA updatedNote :
         IF strict
         THEN WithValidation(updatedNote, validateStrictMode(updatedNote, strict, selected))
         ELSE updatedNote)

\* the effect on [selectedTakeaways, strictMode], run with the state after the
\* handler that changed one of the two
AfterEffect(note, strict, selected) ==
  IF strict /\ note # null /\ Len(selected) > 0
  THEN updateTakeawaysFromSelection(note, strict, selected)
  ELSE note

(***************************************************************************)
(* copyToClipboard: the markdown written to the clipboard                  *)
(***************************************************************************)
Bullets(items) == Join(Map(items, LAMBDA item : "- " \o item), "\n")

QuestionBlock(qa, index, strict) ==
  IF strict
  THEN "- **Q" \o ToString(index) \o ":** " \o qa.question
       \o "\n  <details><summary>Answer</summary>\n  <p>" \o qa.answer
       \o "</p>\n  <p><em>Evidence:</em> \"Not provided\"</p>\n  </details>"
  ELSE "- **Q" \o ToString(index) \o ":** " \o qa.question
       \o "\n  <details><summary>Answer</summary><p>" \o qa.answer \o "</p></details>"

QuestionBlocks(questions, strict) ==
  Let(questions, LAMBDA qs :
    Join([k \in 1..Len(qs) |->
            QuestionBlock([question |-> Sanitized(qs[k].question),
                           answer |-> Sanitized(qs[k].answer)], k, strict)], "\n\n"))

markdownContent(note, strict) ==
  Let(note, LAMBDA n :
    "# " \o n.title \o "\n**Date:** " \o n.date \o "  \n**Module:** " \o n.module
    \o "  \n\n<!-- keywords:start -->\n## Keywords\n" \o Bullets(Map(n.keywords, Sanitized))
    \o "\n<!-- keywords:end -->\n\n<!-- qa:start -->\n## Questions & Answers\n"
    \o QuestionBlocks(n.questions, strict)
    \o "\n<!-- qa:end -->\n\n<!-- takeaways:start -->\n## Takeaways\n"
    \o Bullets(Map(n.takeaways, Sanitized))
    \o "\n<!-- takeaways:end -->\n\n<!-- summary:start -->\n## Summary\n"
    \o Sanitized(n.summary) \o "\n<!-- summary:end -->")

\* the number of edits and clicks of a session
MaxEvents == 9

Toast(title, description) == [title |-> title, description |-> description]

ComponentInit ==
  /\ excerpt = ""
  /\ cornellNote = null
  /\ isProcessing = FALSE
  /\ strictMode = FALSE
  /\ suggestedTakeaways = <<>>
  /\ selectedTakeaways = <<>>
  /\ domainVocabulary = ""
  /\ pending = null
  /\ toasts = <<>>
  /\ clipboard = null
  /\ events = 0
  /\ memo = Computed(Excerpts)

Init == ComponentInit /\ argument = "" /\ returned = <<>>

\* an edit or a click of the user
UserEvent == events < MaxEvents /\ events' = events + 1

\* onChange of the excerpt textarea
SetExcerpt(e) ==
  /\ UserEvent
  /\ e # excerpt
  /\ excerpt' = e
  /\ toasts' = <<>>
  /\ UNCHANGED <<cornellNote, isProcessing, strictMode, suggestedTakeaways, selectedTakeaways,
                 domainVocabulary, pending, clipboard, memo, argument, returned>>

\* onCheckedChange of the strict mode switch, and the effect on strictMode
ToggleStrictMode ==
  /\ UserEvent
  /\ strictMode' = ~strictMode
  /\ cornellNote' = AfterEffect(cornellNote, ~strictMode, selectedTakeaways)
  /\ toasts' = <<>>
  /\ UNCHANGED <<excerpt, isProcessing, suggestedTakeaways, selectedTakeaways,
                 domainVocabulary, pending, clipboard, memo, argument, returned>>

\* onChange of the vocabulary textarea, which is rendered in strict mode
SetDomainVocabulary(v) ==
  /\ UserEvent
  /\ strictMode
  /\ v # domainVocabulary
  /\ domainVocabulary' = v
  /\ toasts' = <<>>
  /\ UNCHANGED <<excerpt, cornellNote, isProcessing, strictMode, suggestedTakeaways,
                 selectedTakeaways, pending, clipboard, memo, argument, returned>>

\* the warning with the threshold itself counted as short
ShortExcerptWarningInclusive(words) ==
  IF words <= ShortExcerptWords
  THEN <<Toast("Short excerpt warning",
               "Only " \o ToString(words)
               \o " words found. Shorter excerpts may produce incomplete notes.")>>
  ELSE <<>>

\* the toast of generateCornellNote before the delay
ShortExcerptWarning(words) ==
  IF words < ShortExcerptWords
  THEN <<Toast("Short excerpt warning",
               "Only " \o ToString(words)
               \o " words found. Shorter excerpts may produce incomplete notes.")>>
  ELSE <<>>

\* generateCornellNote up to the await.  The button is disabled while
\* isProcessing or when the excerpt is blank.
GenerateStart ==
  /\ UserEvent
  /\ ~isProcessing
  /\ trim(excerpt) # ""
  /\ toasts' = ShortExcerptWarning(wordCount(excerpt))
  /\ isProcessing' = TRUE
  /\ pending' = [excerpt |-> excerpt, strictMode |-> strictMode,
                 domainVocabulary |-> domainVocabulary,
                 selectedTakeaways |-> selectedTakeaways]
  /\ UNCHANGED <<excerpt, cornellNote, strictMode, suggestedTakeaways, selectedTakeaways,
                 domainVocabulary, clipboard, memo, argument, returned>>

\* the toasts of generateCornellNote after the delay
GenerationToasts(strict, found, note) ==
  IF strict
  THEN (IF found < MinTakeaways
        THEN <<Toast("Insufficient takeaway suggestions",
                     "Only " \o ToString(found)
                     \o " suggestions found. You may need to manually add additional takeaways.")>>
        ELSE <<>>)
       \o (IF ~note.isValid
           THEN <<Toast("Strict Mode Validation Failed",
                        ToString(Len(note.validationErrors))
                        \o " issues found. Export blocked until resolved.")>>
           ELSE <<>>)
       \o <<Toast("Cornell note generated!",
                  "Please select 5-7 takeaways from the suggestions below.")>>
  ELSE <<Toast("Cornell note generated!", "Your study notes are ready for review.")>>

\* the completion of a request that reads the excerpt and the mode of the
\* render at its end
GenerateFinishLate(date) ==
  /\ pending # null
  /\ \E note \in {validateEvidence(BuildNote(excerpt, strictMode, date),
                                   strictMode, pending.selectedTakeaways)} :
       \E found \in {IF strictMode
                     THEN suggestions(excerpt, pending.domainVocabulary)
                     ELSE <<>>} :
         /\ suggestedTakeaways' = IF strictMode THEN found ELSE suggestedTakeaways
         /\ selectedTakeaways' = IF strictMode THEN <<>> ELSE selectedTakeaways
         /\ cornellNote' = note
         /\ toasts' = GenerationToasts(strictMode, Len(found), note)
  /\ isProcessing' = FALSE
  /\ pending' = null
  /\ UNCHANGED <<excerpt, strictMode, domainVocabulary, clipboard, events, memo, argument, returned>>

\* generateCornellNote after the await, with the state its closure captured
GenerateFinish(date) ==
  /\ pending # null
  /\ \E note \in {validateEvidence(BuildNote(pending.excerpt, pending.strictMode, date),
                                   pending.strictMode, pending.selectedTakeaways)} :
       \E found \in {IF pending.strictMode
                     THEN suggestions(pending.excerpt, pending.domainVocabulary)
                     ELSE <<>>} :
         /\ suggestedTakeaways' = IF pending.strictMode THEN found ELSE suggestedTakeaways
         /\ selectedTakeaways' = IF pending.strictMode THEN <<>> ELSE selectedTakeaways
         /\ cornellNote' = note
         /\ toasts' = GenerationToasts(pending.strictMode, Len(found), note)
  /\ isProcessing' = FALSE
  /\ pending' = null
  /\ UNCHANGED <<excerpt, strictMode, domainVocabulary, clipboard, events, memo, argument, returned>>

\* setSuggestedTakeaways(prev => prev.map(...)) of handleTakeawaySelection
MarkSuggestion(suggested, sentence, selected) ==
  Let2(suggested, sentence, LAMBDA sgs, s :
    Map(sgs, LAMBDA sg : IF sg.sentence = s THEN [sg EXCEPT !.selected = selected] ELSE sg))

\* the updater without the test of prev.includes(sentence)
ChangeSelectionAppending(prev, sentence, selected) ==
  Let2(prev, sentence, LAMBDA p, s :
    IF selected THEN Append(p, s) ELSE SelectSeq(p, LAMBDA t : t # s))

\* setSelectedTakeaways(prev => ...) of handleTakeawaySelection
ChangeSelection(prev, sentence, selected) ==
  Let2(prev, sentence, LAMBDA p, s :
    IF selected
    THEN IF \E j \in 1..Len(p) : p[j] = s THEN p ELSE Append(p, s)
    ELSE SelectSeq(p, LAMBDA t : t # s))

\* a click on the row calls the handler once (onClick); a click on the
\* checkbox of the row calls it from onCheckedChange and, as the click
\* bubbles to the row, from onClick again, with the same arguments
HandlerCalls == {1, 2}

\* the updaters of selectedTakeaways that the calls of one click queue
SelectionAfter(calls, prev, sentence, selected) ==
  IF calls = 1 THEN ChangeSelection(prev, sentence, selected)
  ELSE ChangeSelection(ChangeSelection(prev, sentence, selected), sentence, selected)

\* the updaters of suggestedTakeaways that the calls of one click queue
SuggestionsAfter(calls, suggested, sentence, selected) ==
  IF calls = 1 THEN MarkSuggestion(suggested, sentence, selected)
  ELSE MarkSuggestion(MarkSuggestion(suggested, sentence, selected), sentence, selected)

\* handleTakeawaySelection(suggestedTakeaways[k].sentence, !selected) from the
\* tray, which is rendered in strict mode when there are suggestions, and the
\* effect on selectedTakeaways, which runs when the array is a new one
HandleTakeawaySelection(k) ==
  /\ UserEvent
  /\ strictMode
  /\ k \in 1..Len(suggestedTakeaways)
  /\ \E sentence \in {suggestedTakeaways[k].sentence}, calls \in HandlerCalls :
       \E selected \in {~suggestedTakeaways[k].selected} :
         \E chosen \in {SelectionAfter(calls, selectedTakeaways, sentence, selected)} :
           /\ suggestedTakeaways' = SuggestionsAfter(calls, suggestedTakeaways, sentence, selected)
           /\ selectedTakeaways' = chosen
           /\ cornellNote' = IF selected /\ chosen = selectedTakeaways THEN cornellNote
                             ELSE AfterEffect(cornellNote, strictMode, chosen)
  /\ toasts' = <<>>
  /\ UNCHANGED <<excerpt, isProcessing, strictMode, domainVocabulary, pending, clipboard,
                 memo, argument, returned>>

\* copyToClipboard.  The button is rendered when there is a note and disabled
\* under the condition on which the handler returns early.
CopyToClipboard ==
  /\ UserEvent
  /\ cornellNote # null
  /\ ~(strictMode /\ IsValidFalse(cornellNote))
  /\ clipboard' = [text |-> markdownContent(cornellNote, strictMode)]
  /\ toasts' = <<Toast("Copied to clipboard!",
                       "Your Cornell note has been copied in markdown format.")>>
  /\ UNCHANGED <<excerpt, cornellNote, isProcessing, strictMode, suggestedTakeaways,
                 selectedTakeaways, domainVocabulary, pending, memo, argument, returned>>

Next ==
  \/ \E e \in Excerpts : SetExcerpt(e)
  \/ ToggleStrictMode
  \/ \E v \in Vocabularies : SetDomainVocabulary(v)
  \/ GenerateStart
  \/ \E date \in Dates : GenerateFinish(date)
  \/ \E k \in 1..MaxSuggestions : HandleTakeawaySelection(k)
  \/ CopyToClipboard

Spec == Init /\ [][Next]_vars

(***************************************************************************)
(* sanitize on its own: the texts it is called with, a first call, and a   *)
(* second call on the result of the first.                                 *)
(***************************************************************************)
\* the number of words of a text
MaxWords == 4

InputWords == {"a", "b"}

InputSeparators == {" ", "  ", ". "}

\* the texts of n words
RECURSIVE TextsOf(_)
TextsOf(n) ==
  IF n = 1 THEN InputWords
  ELSE {t \o sep \o w : t \in TextsOf(n - 1), sep \in InputSeparators, w \in InputWords}

Texts == UNION {TextsOf(n) : n \in 1..MaxWords}

MetadataValues == {"", " foo"}

Proses == {"Teams plan work", "Agile is a mindset."}

\* one metadata line followed by prose
MetadataExcerpt(key, value, prose) == key \o ":" \o value \o "\n" \o prose

MetadataExcerpts ==
  {MetadataExcerpt(key, value, prose) :
     key \in MetadataKeys, value \in MetadataValues, prose \in Proses}

\* texts with white space at both ends and runs of it inside
PaddedTexts == {" a  b ", "\ta\n\nb\t", "  a .  b  ", " "}

\* texts that end with a terminator, as the answers, the takeaways and the
\* summary that generateCornellNote passes to sanitize
TerminatedTexts == {"Agile is a mindset.", "Is it agile?", "Teams plan work. They deliver!",
                    "It is adaptive...", "a. b."}

SanitizeInit ==
  /\ excerpt = ""
  /\ cornellNote = null
  /\ isProcessing = FALSE
  /\ strictMode = FALSE
  /\ suggestedTakeaways = <<>>
  /\ selectedTakeaways = <<>>
  /\ domainVocabulary = ""
  /\ pending = null
  /\ toasts = <<>>
  /\ clipboard = null
  /\ events = 0
  /\ memo = <<>>
  /\ argument \in Texts \cup MetadataExcerpts \cup PaddedTexts \cup TerminatedTexts
  /\ returned = <<>>

\* sanitize(argument)
SanitizeCall ==
  /\ returned = <<>>
  /\ returned' = <<sanitize(argument)>>
  /\ UNCHANGED <<component, memo, argument>>

\* sanitize(sanitize(argument))
SanitizeAgain ==
  /\ Len(returned) = 1
  /\ returned' = Append(returned, sanitize(returned[1]))
  /\ UNCHANGED <<component, memo, argument>>

SanitizeNext == SanitizeCall \/ SanitizeAgain

SanitizeSpec == SanitizeInit /\ [][SanitizeNext]_vars

(***************************************************************************)
(* Properties of the notes that generateCornellNote produces               *)
(***************************************************************************)
\* C1: every answer stored in a note produced by generateCornellNote ends
\* with '.', '!' or '?' and contains no "..."
AnswersAreFullSentences ==
  cornellNote # null =>
    \A k \in 1..Len(cornellNote.questions) :
      /\ EndsWithTerminator(cornellNote.questions[k].answer)
      /\ ~includes(cornellNote.questions[k].answer, "...")

\* C2: a note produced by generateCornellNote has exactly 5 questions, and
\* their question texts are pairwise distinct
ExactlyFiveDistinctQuestions ==
  cornellNote # null =>
    /\ Len(cornellNote.questions) = MaxQuestions
    /\ \A j, k \in 1..Len(cornellNote.questions) :
         j # k => cornellNote.questions[j].question # cornellNote.questions[k].question

\* C3: a note produced by generateCornellNote has between 5 and 7 keywords,
\* no two of them equal when compared case-insensitively
FiveToSevenDistinctKeywords ==
  cornellNote # null =>
    /\ Len(cornellNote.keywords) >= MinKeywords
    /\ Len(cornellNote.keywords) <= MaxKeywords
    /\ \A j, k \in 1..Len(cornellNote.keywords) :
         j # k => toLowerCase(cornellNote.keywords[j]) # toLowerCase(cornellNote.keywords[k])

\* a request of the standard mode completes in this step
StandardGenerationCompletes == pending # null /\ ~pending.strictMode /\ pending' = null

\* C4: when a generation of the standard (non-strict) mode succeeds, the
\* note has between 5 and 7 takeaways
StandardTakeawaysFiveToSeven ==
  [][StandardGenerationCompletes =>
       /\ Len(cornellNote'.takeaways) >= MinTakeaways
       /\ Len(cornellNote'.takeaways) <= MaxTakeaways]_vars

(***************************************************************************)
(* Short excerpts                                                          *)
(***************************************************************************)
\* generateCornellNote passes the blank check and goes on in this step
GenerationStarts == ~isProcessing /\ isProcessing'

\* a toast of the last step has the title
Toasted(title) == \E k \in 1..Len(toasts) : toasts[k].title = title

InvalidNoteNotCopied ==
  [][(/\ strictMode
      /\ cornellNote # null
      /\ ~validateStrictMode(cornellNote, strictMode, selectedTakeaways).isValid)
       => clipboard' = clipboard /\ cornellNote' # null]_vars

\* handleTakeawaySelection has changed the selection in this step, in strict
\* mode and with a note present
SelectionChanges ==
  /\ strictMode
  /\ cornellNote # null
  /\ isProcessing' = isProcessing
  /\ selectedTakeaways' # selectedTakeaways

\* C7: in strict mode with a note present, after a selection or deselection
\* and its effect, the takeaways of the note are the sanitized selection, and
\* isValid and validationErrors are the validation of that selection
NoteFollowsSelection ==
  [][SelectionChanges =>
       /\ cornellNote'.takeaways = Map(selectedTakeaways', Sanitized)
       /\ "isValid" \in DOMAIN cornellNote'
       /\ cornellNote'.isValid
            = validateStrictMode(cornellNote', TRUE, selectedTakeaways').isValid
       /\ cornellNote'.validationErrors
            = validateStrictMode(cornellNote', TRUE, selectedTakeaways').errors]_vars

(***************************************************************************)
(* Properties of sanitize                                                  *)
(***************************************************************************)
\* C8: sanitize is idempotent: sanitize(sanitize(x)) = sanitize(x)
SanitizeIdempotent == Len(returned) = 2 => returned[2] = returned[1]

\* the output split on runs of '.', '!', '?', each piece trimmed and
\* lower-cased
OutputSentences(output) ==
  SelectSeq(Map(SplitOn(output, Terminators), LAMBDA s : toLowerCase(trim(s))),
            LAMBDA s : s # "")

\* C9: the sentences of the output of sanitize are pairwise different when
\* compared case-insensitively
SanitizeOutputSentencesDiffer ==
  Len(returned) >= 1 =>
    \A j, k \in 1..Len(OutputSentences(returned[1])) :
      j # k => OutputSentences(returned[1])[j] # OutputSentences(returned[1])[k]

\* C10: for a metadata line followed by prose, the output of sanitize does
\* not contain the metadata line, and contains the prose up to the
\* normalization of its whitespace
MetadataLineRemovedProseKept ==
  \A key \in MetadataKeys, value \in MetadataValues, prose \in Proses :
    (argument = MetadataExcerpt(key, value, prose) /\ Len(returned) >= 1) =>
      /\ ~includes(returned[1], key \o ":")
      /\ includes(returned[1], trim(CollapseWhiteSpace(prose)))

(***************************************************************************)
(* removeDuplicates on its own: the suggestions that the forEach of        *)
(* extractTakeawaySuggestions pushes have pairwise different sentences and *)
(* scores above 0.                                                         *)
(***************************************************************************)
\* the number of suggestions of a call
MaxCandidates == 3

\* the highest score of a suggestion
MaxScore == 3

CandidateSentences == {"a b c d", "a b c d e", "a b c e", "a a a b", "x y"}

Candidates ==
  [sentence : CandidateSentences, score : 1..MaxScore, selected : {FALSE}]

CandidateLists ==
  UNION {{sgs \in [1..n -> Candidates] :
            \A i, j \in 1..n : i # j => sgs[i].sentence # sgs[j].sentence} :
         n \in 0..MaxCandidates}

\* the component before any event, with no value computed
Unused ==
  /\ excerpt = ""
  /\ cornellNote = null
  /\ isProcessing = FALSE
  /\ strictMode = FALSE
  /\ suggestedTakeaways = <<>>
  /\ selectedTakeaways = <<>>
  /\ domainVocabulary = ""
  /\ pending = null
  /\ toasts = <<>>
  /\ clipboard = null
  /\ events = 0
  /\ memo = <<>>

RemoveDuplicatesInit ==
  /\ Unused
  /\ argument \in CandidateLists
  /\ returned = <<>>

\* removeDuplicates(argument)
RemoveDuplicatesCall ==
  /\ returned = <<>>
  /\ returned' = <<removeDuplicates(argument)>>
  /\ UNCHANGED <<component, memo, argument>>

RemoveDuplicatesNext == RemoveDuplicatesCall

RemoveDuplicatesSpec == RemoveDuplicatesInit /\ [][RemoveDuplicatesNext]_vars

\* the Jaccard similarity of the sets of lower-cased words is above num / den
WordSetJaccardAbove(str1, str2, num, den) ==
  Let2(Words(toLowerCase(str1)), Words(toLowerCase(str2)), LAMBDA words1, words2 :
    Let2({words1[k] : k \in 1..Len(words1)}, {words2[k] : k \in 1..Len(words2)},
         LAMBDA inWords1, inWords2 :
      Cardinality(inWords1 \cap inWords2) * den > num * Cardinality(inWords1 \cup inWords2)))

\* the pairs of suggestions of the argument whose similarity is above 0.7
SimilarPairs ==
  {p \in (1..Len(argument)) \X (1..Len(argument)) :
     /\ p[1] < p[2]
     /\ WordSetJaccardAbove(argument[p[1]].sentence, argument[p[2]].sentence, 7, 10)}

\* the scores with which the suggestion k of the argument is in the result
ScoresReturned(k) ==
  {returned[1][m].score : m \in {m \in 1..Len(returned[1]) :
                                   returned[1][m].sentence = argument[k].sentence}}

\* the suggestion k is in the result with the score it had
KeepsScore(k) == ScoresReturned(k) = {argument[k].score}

\* the suggestion k is in the result with its score reduced by 2, or is not
\* in the result when the reduced score is not above 0
Penalized(k) ==
  ScoresReturned(k) = IF argument[k].score - 2 > 0 THEN {argument[k].score - 2} ELSE {}

\* C11: after removeDuplicates, of two suggestions whose word-set Jaccard
\* similarity is above 0.7 at most one keeps its score, and one that does not
\* keep it has it reduced by exactly 2, or is dropped when that is not above 0
SimilarPairPenalized ==
  Len(returned) = 1 =>
    \A p \in SimilarPairs :
      /\ ~(KeepsScore(p[1]) /\ KeepsScore(p[2]))
      /\ KeepsScore(p[1]) \/ Penalized(p[1])
      /\ KeepsScore(p[2]) \/ Penalized(p[2])

\* removeDuplicates has returned for two similar suggestions, one kept as it
\* was and the other kept with its score reduced
SimilarPairReturned ==
  /\ Len(returned) = 1
  /\ \E p \in SimilarPairs :
       /\ KeepsScore(p[1])
       /\ Penalized(p[2])
       /\ argument[p[2]].score > 2

(***************************************************************************)
(* validateStrictMode and validateEvidence on their own.  Their callers    *)
(* run them in strict mode: on the note of a generation, whose takeaways   *)
(* are empty, with the selection of the closure, and on a patched note,    *)
(* whose takeaways are the sanitized selection.  The counts run from one   *)
(* below to one above the limits of the checks.                            *)
(***************************************************************************)
\* n keywords, the first equal to the second when repeated
KeywordList(n, repeated) ==
  [k \in 1..n |-> "term " \o ToString(IF repeated /\ k = 1 THEN 2 ELSE k)]

KeywordLists ==
  {KeywordList(n, repeated) :
     n \in (MinKeywords - 1)..(MaxKeywords + 1), repeated \in BOOLEAN}

Answers == {"Yes, it does.", "Yes, it does", "Yes... it does.", "Yes... it does"}

\* n questions, the first equal to the second when repeated, the last one
\* with the answer given
QuestionList(n, repeated, answer) ==
  [k \in 1..n |->
     [question |-> "Question " \o ToString(IF repeated /\ k = 1 THEN 2 ELSE k),
      answer |-> IF k = n THEN answer ELSE "Yes, it does."]]

QuestionLists ==
  {QuestionList(n, repeated, answer) :
     n \in (MinQuestions - 1)..(MinQuestions + 1), repeated \in BOOLEAN, answer \in Answers}

\* n sentences
SentenceList(n) == [k \in 1..n |-> "Agile teams plan work " \o ToString(k)]

\* a summary of n sentences
SummaryOf(n) == Join(SentenceList(n), ". ")

Summaries ==
  {SummaryOf(n) : n \in (MinSummarySentences - 1)..(MaxSummarySentences + 1)}

\* the takeaways of the note and the selection: <<0, s>> at a generation,
\* <<s, s>> at a patch
TakeawayCounts ==
  {<<0, 0>>}
  \cup {<<0, s>> : s \in (MinTakeaways - 1)..(MaxTakeaways + 1)}
  \cup {<<s, s>> : s \in (MinTakeaways - 1)..(MaxTakeaways + 1)}

ValidateArguments ==
  {[note |-> [title |-> "Agile Extension Study Notes", date |-> "2025-01-15",
              module |-> "Agile Extension v2", keywords |-> keywords,
              questions |-> questions, takeaways |-> SentenceList(counts[1]),
              summary |-> summary],
    selected |-> SentenceList(counts[2])] :
     keywords \in KeywordLists, questions \in QuestionLists,
     counts \in TakeawayCounts, summary \in Summaries}

\* the values of the pure functions for the notes of ValidateArguments
ValidateComputed(summaries, questionLists) ==
  [summaryBlocks |-> Table([s \in summaries |-> SummaryBlocks(s)]),
   questionErrors |-> Table([qs \in questionLists |-> QuestionErrors(qs)])]

ValidateInit ==
  /\ excerpt = ""
  /\ cornellNote = null
  /\ isProcessing = FALSE
  /\ strictMode = TRUE
  /\ suggestedTakeaways = <<>>
  /\ selectedTakeaways = <<>>
  /\ domainVocabulary = ""
  /\ pending = null
  /\ toasts = <<>>
  /\ clipboard = null
  /\ events = 0
  /\ memo = ValidateComputed(Summaries, QuestionLists)
  /\ argument \in ValidateArguments
  /\ returned = <<>>

\* validateEvidence(argument.note), with strictMode true and selectedTakeaways
\* = argument.selected: the value of its validateStrictMode call, and the
\* note after it
ValidateCall ==
  /\ returned = <<>>
  /\ returned' = <<validateStrictMode(argument.note, TRUE, argument.selected),
                   validateEvidence(argument.note, TRUE, argument.selected)>>
  /\ UNCHANGED <<component, memo, argument>>

ValidateNext == ValidateCall

ValidateSpec == ValidateInit /\ [][ValidateNext]_vars

\* the seven checks, on the note and the selection of the argument
KeywordCountHolds ==
  Len(argument.note.keywords) >= MinKeywords /\ Len(argument.note.keywords) <= MaxKeywords

QuestionCountHolds == Len(argument.note.questions) >= MinQuestions

TakeawayCountHolds ==
  Len(argument.selected) >= MinTakeaways /\ Len(argument.selected) <= MaxTakeaways

SummaryCountHolds ==
  /\ Len(SummaryBlocks(argument.note.summary)) >= MinSummarySentences
  /\ Len(SummaryBlocks(argument.note.summary)) <= MaxSummarySentences

\* the answers that do not end with '.', '!' or '?', and those with "..."
OpenAnswers ==
  {k \in 1..Len(argument.note.questions) :
     ~EndsWithTerminator(argument.note.questions[k].answer)}

EllipsisAnswers ==
  {k \in 1..Len(argument.note.questions) :
     includes(argument.note.questions[k].answer, "...")}

AnswersHold == OpenAnswers = {} /\ EllipsisAnswers = {}

KeywordsUnique ==
  \A j, k \in 1..Len(argument.note.keywords) :
    j # k => argument.note.keywords[j] # argument.note.keywords[k]

QuestionsUnique ==
  \A j, k \in 1..Len(argument.note.questions) :
    j # k => argument.note.questions[j].question # argument.note.questions[k].question

\* 1 for a check that fails
Failed(holds) == IF holds THEN 0 ELSE 1

\* the number of failed checks other than the check of the answers
FailedOtherChecks ==
  Failed(KeywordCountHolds) + Failed(QuestionCountHolds) + Failed(TakeawayCountHolds)
  + Failed(SummaryCountHolds) + Failed(KeywordsUnique) + Failed(QuestionsUnique)

AllChecksHold == FailedOtherChecks = 0 /\ AnswersHold

ErrorsDistinct ==
  \A j, k \in 1..Len(returned[1].errors) :
    j # k => returned[1].errors[j] # returned[1].errors[k]

\* C12, as stated: isValid is true exactly when the seven checks hold, and
\* errors holds one message for each failed check, all different
OneMessagePerFailedCheck ==
  returned # <<>> =>
    /\ returned[1].isValid <=> AllChecksHold
    /\ Len(returned[1].errors) = FailedOtherChecks + Failed(AnswersHold)
    /\ ErrorsDistinct

\* C12, amended: isValid is true exactly when the seven checks hold, and
\* errors holds one message for each failed check of a count or of
\* uniqueness, one for each answer with "..." and one for each answer that
\* does not end with '.', '!' or '?', all different
OneMessagePerFailedCheckOrAnswer ==
  returned # <<>> =>
    /\ returned[1].isValid <=> AllChecksHold
    /\ Len(returned[1].errors)
         = FailedOtherChecks + Cardinality(EllipsisAnswers) + Cardinality(OpenAnswers)
    /\ ErrorsDistinct

\* validateStrictMode has returned isValid true for a note and a selection
\* that pass every check
ValidNoteValidated ==
  /\ returned # <<>>
  /\ AllChecksHold
  /\ returned[1].isValid

(***************************************************************************)
(* A generation request in which a stage throws.  No excerpt of the model  *)
(* makes a stage throw by itself, so the stage that throws is chosen       *)
(* freely: sanitize and cleanupText run before the try block, the other    *)
(* stages inside it.                                                       *)
(***************************************************************************)
\* the stages inside the try block: extractKeywords, extractTakeawaySuggestions,
\* and the construction and validation of the note
Stages == {"keywords", "suggestions", "note"}

\* sanitize or cleanupText throws: the promise of generateCornellNote is
\* rejected before setIsProcessing(true), and nothing catches it
GenerateFaultEarly ==
  /\ UserEvent
  /\ ~isProcessing
  /\ trim(excerpt) # ""
  /\ toasts' = <<>>
  /\ UNCHANGED <<excerpt, cornellNote, isProcessing, strictMode, suggestedTakeaways,
                 selectedTakeaways, domainVocabulary, pending, clipboard, memo,
                 argument, returned>>

\* a failure whose catch has no finally: the request is dropped and
\* isProcessing stays as it is
GenerateFaultUnfinished(stage) ==
  /\ pending # null
  /\ stage \in Stages
  /\ toasts' = <<Toast("Generation failed",
                        "There was an error generating your Cornell note. Please try again.")>>
  /\ pending' = null
  /\ UNCHANGED <<excerpt, cornellNote, isProcessing, strictMode, suggestedTakeaways,
                 selectedTakeaways, domainVocabulary, clipboard, events, memo, argument,
                 returned>>

\* a stage inside the try block throws: catch and finally run.  In strict mode
\* the suggestions are set and the selection is reset before the note is
\* built.
GenerateFault(stage) ==
  /\ pending # null
  /\ \E surfaced \in {pending.strictMode /\ stage = "note"} :
       \E found \in {IF surfaced
                     THEN suggestions(pending.excerpt, pending.domainVocabulary)
                     ELSE <<>>} :
         /\ suggestedTakeaways' = IF surfaced THEN found ELSE suggestedTakeaways
         /\ selectedTakeaways' = IF surfaced THEN <<>> ELSE selectedTakeaways
         /\ toasts' = (IF surfaced /\ Len(found) < MinTakeaways
                       THEN <<Toast("Insufficient takeaway suggestions",
                                    "Only " \o ToString(Len(found))
                                    \o " suggestions found. You may need to manually add additional takeaways.")>>
                       ELSE <<>>)
                      \o <<Toast("Generation failed",
                                 "There was an error generating your Cornell note. Please try again.")>>
  /\ isProcessing' = FALSE
  /\ pending' = null
  /\ UNCHANGED <<excerpt, cornellNote, strictMode, domainVocabulary, clipboard, events,
                 memo, argument, returned>>

FaultNext ==
  \/ Next
  \/ GenerateFaultEarly
  \/ \E stage \in Stages : GenerateFault(stage)

FaultSpec == Init /\ [][FaultNext]_vars

\* C13: when a stage of a generation request fails, the failure is reported
\* as a generic failure, and the note, the suggestions and the selection are
\* as they were before the request
FailedRequestSurfacesNothing ==
  [][(GenerateFaultEarly \/ \E stage \in Stages : GenerateFault(stage)) =>
       /\ Toasted("Generation failed")'
       /\ cornellNote' = cornellNote
       /\ suggestedTakeaways' = suggestedTakeaways
       /\ selectedTakeaways' = selectedTakeaways]_vars

(***************************************************************************)
(* The patch of the takeaways and the validation                           *)
(***************************************************************************)
\* the fields of a note that a patch may change
PatchedFields == {"takeaways", "isValid", "validationErrors"}

\* a step other than the completion of a generation changes the note
NoteChangesWithoutGeneration ==
  /\ cornellNote # null
  /\ cornellNote' # cornellNote
  /\ ~(pending # null /\ pending' = null)

\* C14: between two generations, a change of the note (the patch of
\* updateTakeawaysFromSelection) leaves title, date, module, keywords,
\* questions and summary as they were; only takeaways, isValid and
\* validationErrors change
PatchKeepsContent ==
  [][NoteChangesWithoutGeneration =>
       /\ cornellNote' # null
       /\ DOMAIN cornellNote' \subseteq DOMAIN cornellNote \cup PatchedFields
       /\ \A field \in DOMAIN cornellNote \ PatchedFields :
            /\ field \in DOMAIN cornellNote'
            /\ cornellNote'[field] = cornellNote[field]]_vars

\* the note has been patched with a selection of two sentences
NotePatchedTwice ==
  /\ cornellNote # null
  /\ Len(selectedTakeaways) = 2
  /\ cornellNote.takeaways = Map(selectedTakeaways, Sanitized)

\* the fields that validateEvidence assigns
ValidationFields == {"isValid", "validationErrors"}

PatchedOnce == updateTakeawaysFromSelection(cornellNote, TRUE, selectedTakeaways)

PatchedAgain == updateTakeawaysFromSelection(PatchedOnce, TRUE, selectedTakeaways)

\* C16: the patch of the takeaways and its validation, run twice with the
\* same note and the same selection, give the same isValid, the same
\* validationErrors and the same takeaways as run once
PatchTwiceIsPatchOnce ==
  (cornellNote # null /\ selectedTakeaways # <<>>) =>
    /\ PatchedAgain.isValid = PatchedOnce.isValid
    /\ PatchedAgain.validationErrors = PatchedOnce.validationErrors
    /\ PatchedAgain.takeaways = PatchedOnce.takeaways

\* in strict mode the displayed note is the result of the patch for the
\* selection, of one sentence
NotePatchedForSelection ==
  /\ strictMode
  /\ cornellNote # null
  /\ Len(selectedTakeaways) = 1
  /\ cornellNote = PatchedOnce


(***************************************************************************)
(* The keywords of a note on their own: the four steps generateCornellNote *)
(* takes from the excerpt to note.keywords, for long excerpts that hold    *)
(* the critical terms in prose, in a metadata line, or nowhere.            *)
(***************************************************************************)
\* the number of words of the prose that surrounds the terms
PaddingWords == 312

\* "Up up ... up." with n words
Padding(n) == "Up" \o Concat([k \in 1..(n - 1) |-> " up"]) \o "."

TermSentences ==
  {<<"Teams deliver business value across three horizons.">>,
   <<"Teams deliver business value.", "Leaders plan three horizons.">>}

Heads ==
  {"", "title: Study Notes\n", "source:\n", "title: business value and three horizons\n"}

Places == {"first", "middle", "last"}

\* the lines of the prose: the sentences with the terms before, inside or
\* after the padding
ProseLines(sentences, place) ==
  IF place = "first" THEN sentences \o <<Padding(PaddingWords)>>
  ELSE IF place = "last" THEN <<Padding(PaddingWords)>> \o sentences
  ELSE <<Padding(PaddingWords \div 2)>> \o sentences
         \o <<Padding(PaddingWords - PaddingWords \div 2)>>

KeywordExcerpts ==
  {head \o Join(ProseLines(sentences, place), "\n") :
     head \in Heads, sentences \in TermSentences, place \in Places}
  \cup {head \o Padding(PaddingWords) : head \in Heads}

KeywordsInit ==
  /\ Unused
  /\ argument \in KeywordExcerpts
  /\ returned = <<>>

\* const sanitized = sanitize(excerpt)
KeywordsSanitize ==
  /\ returned = <<>>
  /\ returned' = <<sanitize(argument)>>
  /\ UNCHANGED <<component, memo, argument>>

\* const cleaned = cleanupText(sanitized)
KeywordsCleanup ==
  /\ Len(returned) = 1
  /\ returned' = Append(returned, cleanupText(returned[1]))
  /\ UNCHANGED <<component, memo, argument>>

\* const keywords = extractKeywords(cleaned)
KeywordsExtract ==
  /\ Len(returned) = 2
  /\ returned' = Append(returned, extractKeywords(returned[2]))
  /\ UNCHANGED <<component, memo, argument>>

\* keywords: sanitize(keywords.join(', ')).split(', ').filter(k => k.trim())
KeywordsOfNote ==
  /\ Len(returned) = 3
  /\ returned' = Append(returned, SanitizedKeywords(returned[3]))
  /\ UNCHANGED <<component, memo, argument>>

KeywordsNext == KeywordsSanitize \/ KeywordsCleanup \/ KeywordsExtract \/ KeywordsOfNote

KeywordsSpec == KeywordsInit /\ [][KeywordsNext]_vars

ScenarioTerms == {"business value", "three horizons"}

\* some keyword of the note matches the term
KeywordMatches(term) ==
  \E k \in 1..Len(returned[4]) : includes(toLowerCase(returned[4][k]), term)

\* C17: an excerpt that contains "business value" or "three horizons"
\* anywhere gives a note whose keywords hold a match of the term.  Violated:
\* after a metadata key with no value sanitize removes the next line of prose
\* with the key, and a term that stands only in a metadata line is removed
\* with that line, before extractKeywords reads the text.
TermAnywhereIsKeyword ==
  Len(returned) = 4 =>
    \A term \in ScenarioTerms : includes(argument, term) => KeywordMatches(term)

\* What extractKeywords does ensure: a term that the text still contains after
\* sanitize and cleanupText is a keyword of the note, wherever it stands.
TermOfCleanedTextIsKeyword ==
  Len(returned) = 4 =>
    \A term \in ScenarioTerms :
      includes(toLowerCase(returned[2]), term) =>
        \E k \in 1..Len(returned[4]) : returned[4][k] = term

(***************************************************************************)
(* White space of the output of sanitize                                   *)
(***************************************************************************)
\* no two consecutive spaces, and no white space at either end
Normalized(output) ==
  Let(output, LAMBDA v :
    /\ ~includes(v, "  ")
    /\ Len(v) > 0 => Ch(v, 1) \notin WhiteSpace /\ Ch(v, Len(v)) \notin WhiteSpace)

\* C18: the output of sanitize never contains two consecutive space
\* characters and has no leading or trailing white space.
SanitizeOutputNormalized ==
  \A k \in 1..Len(returned) : Normalized(returned[k])

\* C18 witness: sanitize was called with a text that is not normalized and
\* returned a text that is not empty.
UnnormalizedTextSanitized ==
  /\ Len(returned) >= 1
  /\ ~Normalized(argument)
  /\ returned[1] # ""

(***************************************************************************)
(* A strict-mode note from its construction to a patch: the questions and  *)
(* answers pass through sanitize when the note is built, validateEvidence  *)
(* runs on the note, and updateTakeawaysFromSelection validates it again   *)
(* with the selection.  Keywords, summary and selection run from a count   *)
(* that fails a check to counts that pass it.                              *)
(***************************************************************************)
\* the answers generateQuestions hands over, before sanitize
RawAnswers == Answers \cup {"Yes, it does!", "Does it?", "Yes. It does."}

RawQuestionLists ==
  {QuestionList(n, repeated, answer) :
     n \in (MinQuestions - 1)..(MinQuestions + 1), repeated \in BOOLEAN, answer \in RawAnswers}

\* questions: generateQuestions(...).map(qa => ({...qa, question:
\* sanitize(qa.question), answer: sanitize(qa.answer)}))
SanitizedQuestions(questions) ==
  Map(questions, LAMBDA qa : [question |-> sanitize(qa.question),
                              answer |-> sanitize(qa.answer)])

SelectionCounts == {0, MinTakeaways - 1, MinTakeaways, MaxTakeaways, MaxTakeaways + 1}

StrictNoteArguments ==
  [keywords : {KeywordList(MinKeywords - 1, FALSE), KeywordList(MinKeywords, FALSE)},
   questions : RawQuestionLists,
   summary : {SummaryOf(MinSummarySentences - 1), SummaryOf(MinSummarySentences)},
   selected : {SentenceList(s) : s \in SelectionCounts}]

\* the values of the pure functions for the notes of StrictNoteArguments
StrictNoteComputed(rawQuestionLists) ==
  Let([qs \in rawQuestionLists |-> SanitizedQuestions(qs)], LAMBDA sanitized :
    [sanitize |-> Table([s \in {SentenceList(MaxTakeaways + 1)[k] : k \in 1..(MaxTakeaways + 1)}
                           |-> sanitize(s)]),
     sanitizedQuestions |-> Table(sanitized),
     summaryBlocks |-> Table([s \in Summaries |-> SummaryBlocks(s)]),
     questionErrors |-> Table([qs \in {sanitized[raw] : raw \in rawQuestionLists}
                                 |-> QuestionErrors(qs)])])

StrictNoteInit ==
  /\ excerpt = ""
  /\ cornellNote = null
  /\ isProcessing = FALSE
  /\ strictMode = TRUE
  /\ suggestedTakeaways = <<>>
  /\ selectedTakeaways = <<>>
  /\ domainVocabulary = ""
  /\ pending = null
  /\ toasts = <<>>
  /\ clipboard = null
  /\ events = 0
  /\ memo = StrictNoteComputed(RawQuestionLists)
  /\ argument \in StrictNoteArguments
  /\ returned = <<>>

\* const note: CornellNote = {...} of a generation in strict mode
StrictNoteBuild ==
  /\ returned = <<>>
  /\ returned' = <<[title |-> "Agile Extension Study Notes", date |-> "2025-01-15",
                    module |-> "Agile Extension v2", keywords |-> argument.keywords,
                    questions |-> memo.sanitizedQuestions[argument.questions],
                    takeaways |-> <<>>, summary |-> argument.summary]>>
  /\ UNCHANGED <<component, memo, argument>>

\* validateEvidence(note) of the generation, whose closure holds no selection
\* or the selection of the argument
StrictNoteValidate ==
  /\ Len(returned) = 1
  /\ \E selected \in {<<>>, argument.selected} :
       returned' = Append(returned, validateEvidence(returned[1], TRUE, selected))
  /\ UNCHANGED <<component, memo, argument>>

\* updateTakeawaysFromSelection() of the effect, once takeaways are selected
StrictNotePatch ==
  /\ Len(returned) = 2
  /\ Len(argument.selected) > 0
  /\ returned' = Append(returned,
                        updateTakeawaysFromSelection(returned[2], TRUE, argument.selected))
  /\ UNCHANGED <<component, memo, argument>>

StrictNoteNext == StrictNoteBuild \/ StrictNoteValidate \/ StrictNotePatch

StrictNoteSpec == StrictNoteInit /\ [][StrictNoteNext]_vars

\* C19: no note is valid: every validation of a note built by
\* generateCornellNote, at the generation or at a patch, reports an error and
\* leaves isValid false, so the copy stays blocked in strict mode.
NoValidNote ==
  \A k \in 2..Len(returned) :
    /\ IsValidFalse(returned[k])
    /\ returned[k].validationErrors # <<>>

\* C19 witness: a patched note that passes every check but the one of the
\* last character of its answers.
OnlyAnswersOpen ==
  /\ Len(returned) = 3
  /\ Len(returned[3].validationErrors) = Len(returned[3].questions)
  /\ \A k \in 1..Len(returned[3].validationErrors) :
       includes(returned[3].validationErrors[k], "must end with punctuation")

\* the same of the component: the note on display is never valid
NoValidNoteDisplayed ==
  cornellNote # null /\ "isValid" \in DOMAIN cornellNote => ~cornellNote.isValid

(***************************************************************************)
(* The validation at the end of a strict-mode generation                   *)
(***************************************************************************)
\* a generateCornellNote call made in strict mode sets its note
StrictGenerationCompletes ==
  pending # null /\ pending.strictMode /\ pending' = null /\ cornellNote' # null

\* C20: a freshly generated strict-mode note carries the takeaway-count error
\* with "found 0", whatever was selected before or during the delay.
\* Violated: validateStrictMode reads the selectedTakeaways of the render in
\* which Generate was clicked, so a selection made for the previous note is
\* counted.
FreshStrictNoteFoundZero ==
  [][StrictGenerationCompletes =>
       \E k \in 1..Len(cornellNote'.validationErrors) :
         cornellNote'.validationErrors[k] = "Takeaways must be 5-7 items " \o Found(0)]_vars

(***************************************************************************)
(* The excerpt of the note and the excerpt of the suggestions              *)
(***************************************************************************)
\* the note on display was generated from the excerpt
NoteOf(e) ==
  /\ cornellNote.keywords = draft(e).keywords
  /\ cornellNote.questions = draft(e).questions
  /\ cornellNote.summary = draft(e).summary

\* the sentences extractTakeawaySuggestions returns for the excerpt
SuggestedFor(e) ==
  UNION {{suggestions(e, v)[k].sentence : k \in 1..Len(suggestions(e, v))} :
         v \in Vocabularies}

\* C21: whenever a note is present together with suggestions or a selection,
\* the suggestions and the selection were computed from the excerpt of that
\* note.  Violated: a generation in standard mode replaces the note and
\* leaves the suggestions and the selection of the earlier excerpt.
SuggestionsOfTheNote ==
  cornellNote # null /\ (suggestedTakeaways # <<>> \/ selectedTakeaways # <<>>) =>
    \E e \in Excerpts :
      /\ NoteOf(e)
      /\ \A k \in 1..Len(suggestedTakeaways) : suggestedTakeaways[k].sentence \in SuggestedFor(e)
      /\ \A k \in 1..Len(selectedTakeaways) : selectedTakeaways[k] \in SuggestedFor(e)

\* The consequence for the patch: the takeaways of the note on display are
\* takeaways or suggestions of the excerpt of the note.  Violated as well: with
\* strict mode switched on again the effect writes the old selection into the
\* new note.
TakeawaysOfTheNote ==
  cornellNote # null =>
    \E e \in Excerpts :
      /\ NoteOf(e)
      /\ \A k \in 1..Len(cornellNote.takeaways) :
           \/ \E j \in 1..Len(draft(e).takeaways) :
                cornellNote.takeaways[k] = draft(e).takeaways[j]
           \/ \E s \in SuggestedFor(e) : cornellNote.takeaways[k] = Sanitized(s)

(***************************************************************************)
(* One request at a time                                                   *)
(***************************************************************************)
\* a generateCornellNote call reaches its await
RequestStarts == pending' # null /\ pending' # pending

\* a generateCornellNote call sets its note
RequestCompletes == pending # null /\ pending' = null

\* the note set is the one of the excerpt and the mode the request started
\* with
BuiltAsStarted ==
  /\ cornellNote' # null
  /\ cornellNote'.keywords = draft(pending.excerpt).keywords
  /\ cornellNote'.questions = draft(pending.excerpt).questions
  /\ cornellNote'.summary = draft(pending.excerpt).summary
  /\ cornellNote'.takeaways
       = IF pending.strictMode THEN <<>> ELSE draft(pending.excerpt).takeaways
  /\ "isValid" \in DOMAIN cornellNote' <=> pending.strictMode

\* C22: at most one request is in flight: a request starts only when
\* isProcessing is false, isProcessing is true from the start of the delay to
\* the completion, and the note is built from the excerpt and the mode in
\* effect at the start, also when the user changes them during the delay.
OneRequestInFlight ==
  [][/\ RequestStarts => ~isProcessing /\ pending = null /\ pending'.excerpt = excerpt
                         /\ pending'.strictMode = strictMode
     /\ isProcessing' <=> pending' # null
     /\ RequestCompletes => BuiltAsStarted]_vars

\* C22 witness: a request is in flight and the user has changed the excerpt
\* and the mode since it started.
EditedDuringDelay ==
  /\ isProcessing
  /\ pending # null
  /\ pending.excerpt # excerpt
  /\ pending.strictMode # strictMode

(***************************************************************************)
(* calculateSimilarity on its own, in both orders of its arguments.  The   *)
(* value is the pair <<intersection, union>> of the division.              *)
(***************************************************************************)
\* the number of words of a sentence
MaxSentenceWords == 3

SentenceWords == {"a", "b", "A"}

\* the sentences of n words
RECURSIVE SentencesOf(_)
SentencesOf(n) ==
  IF n = 1 THEN SentenceWords
  ELSE {s \o " " \o w : s \in SentencesOf(n - 1), w \in SentenceWords}

SimilarityArguments ==
  Let(UNION {SentencesOf(n) : n \in 1..MaxSentenceWords}, LAMBDA sentences :
    sentences \X sentences)

SimilarityInit ==
  /\ Unused
  /\ argument \in SimilarityArguments
  /\ returned = <<>>

\* calculateSimilarity(str1, str2)
SimilarityCall ==
  /\ returned = <<>>
  /\ returned' = <<calculateSimilarity(argument[1], argument[2])>>
  /\ UNCHANGED <<component, memo, argument>>

\* calculateSimilarity(str2, str1)
SimilaritySwapped ==
  /\ Len(returned) = 1
  /\ returned' = Append(returned, calculateSimilarity(argument[2], argument[1]))
  /\ UNCHANGED <<component, memo, argument>>

SimilarityNext == SimilarityCall \/ SimilaritySwapped

SimilaritySpec == SimilarityInit /\ [][SimilarityNext]_vars

\* the set of lower-cased words of the sentence
WordSet(str) ==
  Let(Words(toLowerCase(str)), LAMBDA words : {words[k] : k \in 1..Len(words)})

\* C23: calculateSimilarity(a, b) is |A n B| / |A u B| for the sets A and B
\* of lower-cased words of a and b; it lies within [0, 1] and has the same
\* value for (b, a).  Violated: the intersection is counted over the words of
\* the first argument with their repetitions.
SimilarityIsJaccard ==
  /\ Len(returned) >= 1 =>
       /\ returned[1][1] * Cardinality(WordSet(argument[1]) \cup WordSet(argument[2]))
            = Cardinality(WordSet(argument[1]) \cap WordSet(argument[2])) * returned[1][2]
       /\ returned[1][1] >= 0
       /\ returned[1][1] <= returned[1][2]
  /\ Len(returned) = 2 => returned[1][1] * returned[2][2] = returned[2][1] * returned[1][2]

\* What the code does ensure: for sentences without a repeated word the value
\* is the Jaccard similarity of the word sets.
SimilarityIsJaccardWithoutRepeats ==
  Len(returned) >= 1
  /\ Cardinality(WordSet(argument[1])) = Len(Words(argument[1])) =>
    returned[1][1] * Cardinality(WordSet(argument[1]) \cup WordSet(argument[2]))
      = Cardinality(WordSet(argument[1]) \cap WordSet(argument[2])) * returned[1][2]

(***************************************************************************)
(* The score of one candidate of extractTakeawaySuggestions on its own     *)
(***************************************************************************)
ScoredSentences ==
  {"It is a mindset", "It introduces a mindset", "Teams plan work", "It results in value",
   "Work results vary", "This isolates teams", "The Defines value",
   "Agile teams plan the work of every sprint in short cycles",
   "It explains the mindset and the value of agile work to teams"}

ScoreArguments ==
  [sentence : ScoredSentences,
   keywords : {<<>>, <<"mindset">>, <<"Mindset", "value">>, <<"mindset", "mindset">>},
   conceptTerms : {<<>>, <<"Agile">>},
   domainTerms : {<<>>, <<"teams">>, <<"teams", "work">>}]

ScoreInit ==
  /\ Unused
  /\ argument \in ScoreArguments
  /\ returned = <<>>

\* let score = 0; ... the six rules of the forEach
ScoreCall ==
  /\ returned = <<>>
  /\ returned' = <<SuggestionScore(argument.sentence, argument.keywords,
                                   argument.conceptTerms, argument.domainTerms)>>
  /\ UNCHANGED <<component, memo, argument>>

ScoreNext == ScoreCall

ScoreSpec == ScoreInit /\ [][ScoreNext]_vars

\* the lower-cased sentence of the argument, and its words
LowerSentence == toLowerCase(argument.sentence)

LowerWords == Words(LowerSentence)

\* the sentence begins with it, this or the, followed by text that starts
\* with one of the verbs
BeginsWithSubjectAnd(verbs) ==
  /\ Len(LowerWords) >= 2
  /\ LowerWords[1] \in StarterSubjects
  /\ \E v \in verbs :
       LitAt(Join(SubSeq(LowerWords, 2, Len(LowerWords)), " "), 1, v)

\* the sentence contains one of the verbs
ContainsOneOf(verbs) == \E v \in verbs : includes(LowerSentence, v)

\* the entries of the list that the sentence contains, whatever their case
EntriesFound(terms) ==
  Cardinality({k \in 1..Len(terms) : includes(LowerSentence, toLowerCase(terms[k]))})

\* the sum of the rules, with the verbs of the second rule given
SumOfRules(containedVerbs) ==
  (IF BeginsWithSubjectAnd(StarterVerbs) THEN 3 ELSE 0)
  + (IF ContainsOneOf(containedVerbs) THEN 2 ELSE 0)
  + EntriesFound(argument.keywords) + EntriesFound(argument.conceptTerms)
  + EntriesFound(argument.domainTerms)
  + (IF Len(Words(argument.sentence)) >= 8 /\ Len(Words(argument.sentence)) <= 28
     THEN 1 ELSE 0)

\* C24, as stated: the score is the sum of +3 for a beginning It/This/The and
\* exposition verb, +2 for a verb of that same list anywhere, +1 per keyword,
\* concept term and domain term found, +1 for 8 to 28 words
ScoreIsSumSameVerbs ==
  returned # <<>> => returned[1] = SumOfRules(StarterVerbs)

\* C24, amended: the same sum, with +2 for one of introduces, describes,
\* explains, defines, emphasizes, recommends, provides, demonstrates, enables,
\* results anywhere: the list of the second rule has no "is", and "results"
\* for "results in"
ScoreIsSumActionVerbs ==
  returned # <<>> =>
    returned[1] = SumOfRules({"introduces", "describes", "explains", "defines", "emphasizes",
                              "recommends", "provides", "demonstrates", "enables", "results"})

\* C24 witness: a sentence scored under every rule at once
ScoredUnderEveryRule ==
  /\ returned # <<>>
  /\ BeginsWithSubjectAnd(StarterVerbs)
  /\ ContainsOneOf({"explains"})
  /\ EntriesFound(argument.keywords) = 2
  /\ EntriesFound(argument.conceptTerms) = 1
  /\ EntriesFound(argument.domainTerms) = 2
  /\ Len(Words(argument.sentence)) >= 8
  /\ returned[1] = 11

(***************************************************************************)
(* The summary of a note on its own: the steps generateCornellNote takes   *)
(* from the excerpt to note.summary, and the count of validateStrictMode,  *)
(* for excerpts made of sentences that match one slot, several slots or no *)
(* slot of generateSummary.                                                *)
(***************************************************************************)
SlotSentences ==
  <<"The agile extension v2 provides guidance for teams",
    "Agile is a mindset of context-appropriate practices with three horizons of business value in all contexts",
    "Rolling-wave planning and progressive elaboration are adaptive",
    "Stakeholder collaboration drives the delivery of value in broader work",
    "Teams plan the work of every sprint in short cycles">>

\* the sentences of the set, in the order of SlotSentences, each with its period
ExcerptOf(chosen) ==
  Join(Map(SelectSeq(Idx(Len(SlotSentences)), LAMBDA k : k \in chosen),
           LAMBDA k : SlotSentences[k] \o "."), " ")

SummaryExcerpts == {ExcerptOf(chosen) : chosen \in SUBSET (1..Len(SlotSentences)) \ {{}}}

\* the values of the pure functions for the excerpts given
SummaryComputed(excerpts) ==
  [e \in excerpts |->
     Let(cleanupText(sanitize(e)), LAMBDA cleaned :
       Let(generateSummary(cleaned), LAMBDA generated :
         Let(sanitize(generated), LAMBDA summary :
           [cleanedExcerpt |-> cleaned, generated |-> generated, summary |-> summary,
            summaryBlocks |-> SummaryBlocks(summary)])))]

SummaryInit ==
  /\ excerpt = ""
  /\ cornellNote = null
  /\ isProcessing = FALSE
  /\ strictMode = FALSE
  /\ suggestedTakeaways = <<>>
  /\ selectedTakeaways = <<>>
  /\ domainVocabulary = ""
  /\ pending = null
  /\ toasts = <<>>
  /\ clipboard = null
  /\ events = 0
  /\ memo = Table(SummaryComputed(SummaryExcerpts))
  /\ argument \in SummaryExcerpts
  /\ returned = <<>>

\* const cleanedExcerpt = cleanupText(sanitize(excerpt))
SummaryCleanup ==
  /\ returned = <<>>
  /\ returned' = <<memo[argument].cleanedExcerpt>>
  /\ UNCHANGED <<component, memo, argument>>

\* generateSummary(cleanedExcerpt)
SummaryGenerate ==
  /\ Len(returned) = 1
  /\ returned' = Append(returned, memo[argument].generated)
  /\ UNCHANGED <<component, memo, argument>>

\* summary: sanitize(generateSummary(cleanedExcerpt))
SummaryOfNote ==
  /\ Len(returned) = 2
  /\ returned' = Append(returned, memo[argument].summary)
  /\ UNCHANGED <<component, memo, argument>>

\* const summaryBlocks = note.summary.split(/[.!?]+/).filter(...)
SummaryCount ==
  /\ Len(returned) = 3
  /\ returned' = Append(returned, memo[argument].summaryBlocks)
  /\ UNCHANGED <<component, memo, argument>>

SummaryNext == SummaryCleanup \/ SummaryGenerate \/ SummaryOfNote \/ SummaryCount

SummarySpec == SummaryInit /\ [][SummaryNext]_vars

\* C25: the summary of every generated note has between 4 and 8 sentences,
\* as validateStrictMode counts them, also when several slots match the same
\* sentence.  Violated: the slots filled with one sentence differ by their
\* lead-in only, and the filter of near-duplicates keeps the first of them.
SummaryFourToEight ==
  Len(returned) = 4 =>
    /\ Len(returned[4]) >= MinSummarySentences
    /\ Len(returned[4]) <= MaxSummarySentences

\* What the code does ensure: the summary never has more than 5 sentences,
\* and it has 5 when no sentence of the excerpt fills two slots.
SummaryAtMostFive == Len(returned) = 4 => Len(returned[4]) <= 5

(***************************************************************************)
(* The candidates for takeaways on their own: the suggestions and the      *)
(* takeaways generateCornellNote computes from an excerpt made of          *)
(* questions and statements.                                               *)
(***************************************************************************)
CandidateTexts ==
  <<"How does an agile mindset describe the practices of a team?",
    "Agile teams deliver business value to every customer?",
    "Is business value delivery important for every customer.",
    "It introduces the three horizons framework for strategy work.",
    "The extension describes rolling-wave planning for adaptive teams.">>

TakeawayExcerpts ==
  {Join(SelectSeq(CandidateTexts, LAMBDA s : s \in chosen), " ") :
     chosen \in SUBSET {CandidateTexts[k] : k \in 1..Len(CandidateTexts)} \ {{}}}

\* the values of the pure functions for the excerpts given
TakeawayComputed(excerpts) ==
  [e \in excerpts |->
     Let(cleanupText(sanitize(e)), LAMBDA cleaned :
       [cleanedExcerpt |-> cleaned,
        suggestions |-> extractTakeawaySuggestions(cleaned, extractKeywords(cleaned), ""),
        takeaways |-> generateTakeaways(cleaned)])]

TakeawayInit ==
  /\ excerpt = ""
  /\ cornellNote = null
  /\ isProcessing = FALSE
  /\ strictMode = FALSE
  /\ suggestedTakeaways = <<>>
  /\ selectedTakeaways = <<>>
  /\ domainVocabulary = ""
  /\ pending = null
  /\ toasts = <<>>
  /\ clipboard = null
  /\ events = 0
  /\ memo = Table(TakeawayComputed(TakeawayExcerpts))
  /\ argument \in TakeawayExcerpts
  /\ returned = <<>>

\* const cleanedExcerpt = cleanupText(sanitize(excerpt))
TakeawayCleanup ==
  /\ returned = <<>>
  /\ returned' = <<memo[argument].cleanedExcerpt>>
  /\ UNCHANGED <<component, memo, argument>>

\* extractTakeawaySuggestions(cleanedExcerpt, keywords) with no vocabulary
TakeawaySuggest ==
  /\ Len(returned) = 1
  /\ returned' = Append(returned, memo[argument].suggestions)
  /\ UNCHANGED <<component, memo, argument>>

\* generateTakeaways(cleanedExcerpt)
TakeawayGenerate ==
  /\ Len(returned) = 2
  /\ returned' = Append(returned, memo[argument].takeaways)
  /\ UNCHANGED <<component, memo, argument>>

TakeawayNext == TakeawayCleanup \/ TakeawaySuggest \/ TakeawayGenerate

TakeawaySpec == TakeawayInit /\ [][TakeawayNext]_vars

\* the sentence without its terminator
Body(sentence) == SubSeq(sentence, 1, Len(sentence) - 1)

\* the sentence is a suggestion, or a takeaway, of the results
IsCandidate(sentence) ==
  \/ Len(returned) >= 2
     /\ \E k \in 1..Len(returned[2]) : returned[2][k].sentence = Body(sentence)
  \/ Len(returned) = 3
     /\ \E k \in 1..Len(returned[3]) : returned[3][k] = Body(sentence) \o "."

\* C26: a sentence that is a question (it ends with '?' or starts with a
\* word of the list) is never a candidate: it is neither a suggestion of
\* extractTakeawaySuggestions nor a takeaway of generateTakeaways.  Violated:
\* the sentences are split on '.', '!' and '?', so no sentence that
\* filterQuestionTakeaways reads ends with '?'.
QuestionsAreNoCandidates ==
  \A k \in 1..Len(CandidateTexts) :
    IsQuestion(CandidateTexts[k]) /\ includes(argument, CandidateTexts[k])
      => ~IsCandidate(CandidateTexts[k])

\* What the code does ensure: a sentence that starts with a word of the list
\* is never a candidate.
QuestionStartsAreNoCandidates ==
  \A k \in 1..Len(CandidateTexts) :
    IsQuestion(Body(CandidateTexts[k])) => ~IsCandidate(CandidateTexts[k])
(***************************************************************************)
(* generateQuestions on its own: the questions generateCornellNote gets    *)
(* for an excerpt whose sentences match several templates.                 *)
(***************************************************************************)
QuestionSentences ==
  <<"Agile teams deliver business value through the three horizons framework.",
    "The agile mindset is adaptive and collaborative in every context.",
    "Business value delivery matters to every customer and stakeholder.",
    "Rolling-wave planning supports progressive elaboration of requirements.",
    "The extension complements the babok guide with agile practices.",
    "Some teams simply write down whatever they learned during the week.">>

QuestionExcerpts ==
  {Join(SelectSeq(QuestionSentences, LAMBDA s : s \in chosen), " ") :
     chosen \in SUBSET {QuestionSentences[k] : k \in 1..Len(QuestionSentences)} \ {{}}}

\* the values of the pure functions for the excerpts given
QuestionComputed(excerpts) ==
  [e \in excerpts |->
     Let(cleanupText(sanitize(e)), LAMBDA cleaned :
       [cleanedExcerpt |-> cleaned, questions |-> generateQuestions(cleaned)])]

QuestionInit ==
  /\ excerpt = ""
  /\ cornellNote = null
  /\ isProcessing = FALSE
  /\ strictMode = FALSE
  /\ suggestedTakeaways = <<>>
  /\ selectedTakeaways = <<>>
  /\ domainVocabulary = ""
  /\ pending = null
  /\ toasts = <<>>
  /\ clipboard = null
  /\ events = 0
  /\ memo = Table(QuestionComputed(QuestionExcerpts))
  /\ argument \in QuestionExcerpts
  /\ returned = <<>>

\* const cleanedExcerpt = cleanupText(sanitize(excerpt))
QuestionCleanup ==
  /\ returned = <<>>
  /\ returned' = <<memo[argument].cleanedExcerpt>>
  /\ UNCHANGED <<component, memo, argument>>

\* generateQuestions(cleanedExcerpt, strictMode)
QuestionGenerate ==
  /\ Len(returned) = 1
  /\ returned' = Append(returned, memo[argument].questions)
  /\ UNCHANGED <<component, memo, argument>>

QuestionNext == QuestionCleanup \/ QuestionGenerate

QuestionSpec == QuestionInit /\ [][QuestionNext]_vars

\* the sentences of an answer: its primary sentence, then its related one
AnswerSentences(answer) == Map(Sentences(answer, 0), trim)

\* the sentences of the text generateQuestions was given
PoolSentences ==
  {trim(s) : s \in {Sentences(returned[1], QuestionSentenceMinLength)[k] :
                      k \in 1..Len(Sentences(returned[1], QuestionSentenceMinLength))}}

\* the position of the template a question was made from
TemplateOf(qa) == CHOOSE t \in 1..Len(questionTemplates) : questionTemplates[t].question = qa.question

\* C27: the questions follow the order of the five templates, every answer
\* is a primary sentence of the text and at most one related sentence of it,
\* no two questions have the same primary sentence, and no sentence of an
\* answer (primary or related) is a sentence of a later answer.
UsedSentencesLeaveThePool ==
  Len(returned) = 2 =>
    /\ \A i \in 1..Len(returned[2]) :
         /\ \E t \in 1..Len(questionTemplates) : questionTemplates[t].question = returned[2][i].question
         /\ Len(AnswerSentences(returned[2][i].answer)) \in {1, 2}
         /\ \A k \in 1..Len(AnswerSentences(returned[2][i].answer)) :
              AnswerSentences(returned[2][i].answer)[k] \in PoolSentences
    /\ \A i \in 1..Len(returned[2]) : \A j \in (i + 1)..Len(returned[2]) :
         /\ TemplateOf(returned[2][i]) < TemplateOf(returned[2][j])
         /\ AnswerSentences(returned[2][i].answer)[1] # AnswerSentences(returned[2][j].answer)[1]
         /\ \A k \in 1..Len(AnswerSentences(returned[2][i].answer)) :
              \A l \in 1..Len(AnswerSentences(returned[2][j].answer)) :
                AnswerSentences(returned[2][i].answer)[k] # AnswerSentences(returned[2][j].answer)[l]

\* a later template has a keyword in the related sentence of an earlier
\* answer and in its primary sentence, and takes neither of them
UsedSentenceMatchesLaterTemplate ==
  /\ Len(returned) = 2
  /\ \E i \in 1..Len(returned[2]) : \E j \in (i + 1)..Len(returned[2]) :
       /\ Len(AnswerSentences(returned[2][i].answer)) = 2
       /\ \A k \in 1..2 :
            IncludesAny(toLowerCase(AnswerSentences(returned[2][i].answer)[k]),
                        questionTemplates[TemplateOf(returned[2][j])].pattern)
(***************************************************************************)
(* The selection and the suggestions of the strict mode.                   *)
(***************************************************************************)
\* the sentences of the suggestions
SuggestedSentences == {suggestedTakeaways[j].sentence : j \in 1..Len(suggestedTakeaways)}

\* C28: in every reachable state selectedTakeaways has no sentence twice,
\* every selected sentence is the sentence of a current suggestion, and a
\* suggestion's selected flag is true exactly when its sentence is selected,
\* whatever the order of the generate, select and deselect events, and also
\* when one click calls the handler twice with the same arguments.
SelectionMatchesSuggestions ==
  /\ \A i \in 1..Len(selectedTakeaways) : \A j \in 1..Len(selectedTakeaways) :
       selectedTakeaways[i] = selectedTakeaways[j] => i = j
  /\ \A i \in 1..Len(selectedTakeaways) : selectedTakeaways[i] \in SuggestedSentences
  /\ \A j \in 1..Len(suggestedTakeaways) :
       suggestedTakeaways[j].selected
         <=> \E i \in 1..Len(selectedTakeaways) : selectedTakeaways[i] = suggestedTakeaways[j].sentence

\* two sentences are selected in the reverse of their order in the tray
\* while a note is displayed
SelectedInReverseOrder ==
  /\ cornellNote # null
  /\ Len(selectedTakeaways) >= 2
  /\ \E a \in 1..Len(suggestedTakeaways) : \E b \in (a + 1)..Len(suggestedTakeaways) :
       /\ selectedTakeaways[1] = suggestedTakeaways[b].sentence
       /\ selectedTakeaways[2] = suggestedTakeaways[a].sentence
(***************************************************************************)
(* Completion of a request.  The timer of the delay fires and the rest of  *)
(* generateCornellNote runs to its end, with or without a failure: the     *)
(* completion of a pending request is not postponed for ever.              *)
(***************************************************************************)
Completion ==
  \/ \E date \in Dates : GenerateFinish(date)
  \/ \E stage \in Stages : GenerateFault(stage)

\* the number of edits and clicks in the behaviours checked for completion
MaxLiveEvents == 7

\* a step that leaves the number of edits and clicks within the bound
Within(Step) == Step /\ events' <= MaxLiveEvents

\* the steps of FaultNext
FaultLiveNext ==
  \/ \E e \in Excerpts : Within(SetExcerpt(e))
  \/ Within(ToggleStrictMode)
  \/ \E v \in Vocabularies : Within(SetDomainVocabulary(v))
  \/ Within(GenerateStart)
  \/ \E date \in Dates : GenerateFinish(date)
  \/ \E k \in 1..MaxSuggestions : Within(HandleTakeawaySelection(k))
  \/ Within(CopyToClipboard)
  \/ Within(GenerateFaultEarly)
  \/ \E stage \in Stages : GenerateFault(stage)

FaultLiveSpec == Init /\ [][FaultLiveNext]_vars /\ WF_vars(Completion)

\* the outcome of a request that ends: the new note with the toast of the
\* success and no failure toast, or the failure toast and the note as it was
NoteReplaced ==
  /\ Toasted("Cornell note generated!")'
  /\ ~Toasted("Generation failed")'
  /\ \E date \in Dates :
       cornellNote' = validateEvidence(BuildNote(pending.excerpt, pending.strictMode, date),
                                       pending.strictMode, pending.selectedTakeaways)

FailureReported ==
  /\ Toasted("Generation failed")'
  /\ ~Toasted("Cornell note generated!")'
  /\ cornellNote' = cornellNote

\* C29: a request that has started (isProcessing is true) eventually
\* completes (isProcessing is false again), whether the pipeline succeeds or
\* throws, and the step that completes it has exactly one of the two
\* outcomes: the note is replaced by the new one, or a generic failure is
\* reported.
StartedRequestCompletes ==
  /\ isProcessing ~> ~isProcessing
  /\ [][isProcessing /\ ~isProcessing' =>
          /\ pending # null /\ pending' = null
          /\ NoteReplaced \/ FailureReported
          /\ ~(NoteReplaced /\ FailureReported)]_vars

\* a request has completed with a failure while the note of an earlier
\* request is displayed
FailedAfterSuccess ==
  /\ ~isProcessing
  /\ pending = null
  /\ cornellNote # null
  /\ Toasted("Generation failed")
(***************************************************************************)
(* The end of the output of sanitize.                                      *)
(***************************************************************************)
\* C30: for every input, the output of sanitize does not end with '.', '!'
\* or '?': the sentences are split on these characters and joined with '. '
\* and no terminator is put back at the end, so a text that ends with a
\* terminator, as the answers, takeaways and summary of a note do, loses it.
SanitizeOutputEndsOpen ==
  \A k \in 1..Len(returned) : ~EndsWithTerminator(returned[k])

\* sanitize was called with a text that ends with a terminator and returned
\* that text without its last character
LastTerminatorLost ==
  /\ Len(returned) >= 1
  /\ EndsWithTerminator(argument)
  /\ returned[1] # ""
  /\ returned[1] = SubSeq(argument, 1, Len(argument) - 1)

\* What follows for the notes: the answers and the summary of a displayed
\* note, and the takeaways that generateTakeaways supplied, end with no
\* terminator.
NoteFieldsEndOpen ==
  cornellNote # null =>
    /\ \A k \in 1..Len(cornellNote.questions) :
         ~EndsWithTerminator(cornellNote.questions[k].answer)
    /\ ~EndsWithTerminator(cornellNote.summary)
    /\ \A e \in Excerpts : cornellNote.takeaways = draft(e).takeaways
         => \A k \in 1..Len(cornellNote.takeaways) :
              ~EndsWithTerminator(cornellNote.takeaways[k])
====
